---- MODULE Spec2Model ----
(***************************************************************************)
(* Model of EzPyMcpTools: the discovery registry (utils.py                 *)
(* _discover_functions, mcp_server.py _discover_and_register), the CLI     *)
(* dispatcher (utils.py main), the utility modules it dispatches to, and   *)
(* the interactive profile setup (user_information.py _ensure_user_info).  *)
(*                                                                         *)
(* The strings of the profile file and of the setup answers are plain      *)
(* strings.                                                                *)
(*                                                                         *)
(* Strings.  A Python str is modelled as a sequence of tokens: a maximal   *)
(* run of letters is one token ("math"), every other character (digit,     *)
(* "_", ".", "-") is a token of its own.  So "date_time" is                *)
(* <<"date","_","time">>, "math__add" is <<"math","_","_","add">> and      *)
(* "1.5" is <<"1",".","5">>.  Concatenation is \o, startswith("_") looks   *)
(* at the head and split("__", 1) searches the first two adjacent "_".     *)
(***************************************************************************)
EXTENDS Integers, Sequences, FiniteSets, TLC

(* ------------------------------------------------------------------ *)
(* Bounds of the model                                                *)
(* ------------------------------------------------------------------ *)

\* Largest number of positional arguments after the command on a command line.
MaxArgs == 2

\* Number of times a direct caller builds the registry in one process.
MaxBuilds == 2

\* Largest number of lines the user types during the profile setup.
MaxAnswers == 5

(* ------------------------------------------------------------------ *)
(* String helpers                                                     *)
(* ------------------------------------------------------------------ *)

\* words joined by single underscores: U(<<"my","ip">>) is "my_ip"
RECURSIVE U(_)
U(ws) ==
    IF Len(ws) = 0 THEN <<>>
    ELSE IF Len(ws) = 1 THEN <<ws[1]>>
    ELSE <<ws[1], "_">> \o U(Tail(ws))

\* a name with a leading underscore: Priv(<<"get","x">>) is "_get_x"
Priv(ws) == <<"_">> \o U(ws)

\* str.startswith("_")
StartsWithUnderscore(s) == Len(s) > 0 /\ s[1] = "_"

\* the separator of qualified names, "__"
Sep == <<"_", "_">>

\* positions i at which s[i], s[i+1] is "__"
SepPositions(s) == {i \in 1..(Len(s) - 1) : s[i] = "_" /\ s[i + 1] = "_"}

\* "__" in s
ContainsSep(s) == SepPositions(s) # {}

\* index of the first "__" of s (s.find("__") + 1); only used when ContainsSep(s)
FirstSep(s) == CHOOSE i \in SepPositions(s) : \A j \in SepPositions(s) : i <= j

\* s.split("__", 1) for a string that contains "__"
SplitSep(s) ==
    <<SubSeq(s, 1, FirstSep(s) - 1), SubSeq(s, FirstSep(s) + 2, Len(s))>>

\* the elements of a sequence
Range(s) == {s[i] : i \in 1..Len(s)}

\* (docstring or "").strip().split("\n")[0]: a docstring is its sequence of lines
FirstLine(doc) == IF Len(doc) = 0 THEN "" ELSE doc[1]

\* ord(c) for the characters of file names: "." is 46, "_" is 95, "a" is 97
\* and the letters follow in the order of the alphabet
Ord(c) ==
    LET Alphabet ==
            <<"a", "b", "c", "d", "e", "f", "g", "h", "i", "j", "k", "l", "m",
              "n", "o", "p", "q", "r", "s", "t", "u", "v", "w", "x", "y", "z">>
    IN IF c = "." THEN 46
       ELSE IF c = "_" THEN 95
       ELSE 96 + (CHOOSE i \in 1..Len(Alphabet) : Alphabet[i] = c)

\* the characters of the words file names and country codes are made of
WordChars(w) ==
    CASE w = "date" -> <<"d", "a", "t", "e">>
      [] w = "time" -> <<"t", "i", "m", "e">>
      [] w = "datetime" -> <<"d", "a", "t", "e", "t", "i", "m", "e">>
      [] w = "ip" -> <<"i", "p">>
      [] w = "address" -> <<"a", "d", "d", "r", "e", "s", "s">>
      [] w = "math" -> <<"m", "a", "t", "h">>
      [] w = "text" -> <<"t", "e", "x", "t">>
      [] w = "user" -> <<"u", "s", "e", "r">>
      [] w = "info" -> <<"i", "n", "f", "o">>
      [] w = "information" -> <<"i", "n", "f", "o", "r", "m", "a", "t", "i", "o", "n">>
      [] w = "weather" -> <<"w", "e", "a", "t", "h", "e", "r">>
      [] w = "helpers" -> <<"h", "e", "l", "p", "e", "r", "s">>
      [] w = "broken" -> <<"b", "r", "o", "k", "e", "n">>
      [] w = "py" -> <<"p", "y">>
      [] w = "US" -> <<"U", "S">>
      [] w = "USA" -> <<"U", "S", "A">>
      [] w = "LR" -> <<"L", "R">>
      [] w = "LBR" -> <<"L", "B", "R">>
      [] w = "FR" -> <<"F", "R">>
      [] w = "FRA" -> <<"F", "R", "A">>
      [] OTHER -> <<w>>

\* the characters of a string
RECURSIVE Chars(_)
Chars(s) == IF Len(s) = 0 THEN <<>> ELSE WordChars(Head(s)) \o Chars(Tail(s))

\* a < b for two strings given by their characters: the order of str
RECURSIVE CharsLess(_, _)
CharsLess(a, b) ==
    IF Len(b) = 0 THEN FALSE
    ELSE IF Len(a) = 0 THEN TRUE
    ELSE IF Ord(Head(a)) # Ord(Head(b)) THEN Ord(Head(a)) < Ord(Head(b))
    ELSE CharsLess(Tail(a), Tail(b))

\* module_path.name of the file of a stem
FileName(stem) == stem \o <<".", "py">>

\* the order of the paths of one directory: the order of their names
PathLess(a, b) == CharsLess(Chars(FileName(a)), Chars(FileName(b)))

\* sorted() that keeps whatever order the directory is read in: the
\* largest name first
RECURSIVE sorted_Unsorted(_)
sorted_Unsorted(paths) ==
    IF paths = {} THEN <<>>
    ELSE LET last == CHOOSE x \in paths : \A y \in paths \ {x} : PathLess(y, x)
         IN <<last>> \o sorted_Unsorted(paths \ {last})

\* sorted(utils_dir.glob("*.py")): the stems of the files of a directory in
\* ascending order of the paths
RECURSIVE sorted(_)
sorted(paths) ==
    IF paths = {} THEN <<>>
    ELSE LET first == CHOOSE x \in paths : \A y \in paths \ {x} : PathLess(x, y)
         IN <<first>> \o sorted(paths \ {first})

(* ------------------------------------------------------------------ *)
(* The scanned directory: src/utils/*.py, and what each module holds  *)
(* ------------------------------------------------------------------ *)

\* a parameter of a signature: name, annotation, whether it has a default
P(n, h, d) == [name |-> n, hint |-> h, hasDefault |-> d]

\* a function object found in a module: its __name__, its __module__,
\* its signature, its docstring and the kind of value it returns
Fn(n, m, ps, doc, ret) ==
    [name |-> n, kind |-> "function", module |-> m, params |-> ps,
     doc |-> doc, ret |-> ret]

\* a module attribute that is not a function (class, module, lru_cache wrapper)
NonFn(n, k, m) ==
    [name |-> n, kind |-> k, module |-> m, params |-> <<>>, doc |-> <<>>,
     ret |-> "none"]

\* module_name = f"utils.{ns}"
ModuleName(stem) == <<"utils", ".">> \o stem

DateTimeStem == U(<<"date", "time">>)
DatetimeStem == <<"datetime">>
IpAddressStem == U(<<"ip", "address">>)
MathStem == <<"math">>
TextStem == <<"text">>
UserInfoStem == U(<<"user", "info">>)
UserInformationStem == U(<<"user", "information">>)
WeatherStem == <<"weather">>

\* files a utils directory can hold besides: _helpers.py, which defines a
\* public function, text_broken.py, whose import raises, and date__time.py,
\* whose name holds the separator of qualified names
HelpersStem == Priv(<<"helpers">>)
TextBrokenStem == U(<<"text", "broken">>)
DoubleStem == <<"date">> \o Sep \o <<"time">>

\* utils_dir.glob("*.py") of the repository
RepositoryFiles ==
    {DateTimeStem, DatetimeStem, IpAddressStem, MathStem, TextStem,
     UserInfoStem, UserInformationStem, WeatherStem}

\* the directories the scans are run on: the repository's, one with a file
\* named with a leading "_", one with a module that cannot be imported, one
\* with a file named with "__"
Directories ==
    {RepositoryFiles,
     {HelpersStem, MathStem, IpAddressStem},
     {MathStem, TextBrokenStem, WeatherStem},
     {DoubleStem, MathStem}}

\* sorted(utils_dir.glob("*.py")) of the repository
UtilsDir == sorted(RepositoryFiles)

\* importlib.import_module(module_name) raises
ImportFails(stem) == stem = TextBrokenStem

\* utils/_helpers.py
HelpersMembers ==
    <<Fn(<<"helper">>, ModuleName(HelpersStem), <<>>, <<"A helper.">>, "dict")>>

\* utils/date_time.py: attributes in the order dir() gives them (by name)
DateTimeMembers ==
    LET m == ModuleName(DateTimeStem) IN
    <<NonFn(<<"ZoneInfo">>, "class", <<"zoneinfo">>),
      Fn(Priv(<<"detect", "country", "code", "from", "locale">>), m, <<>>,
         <<"Detect country code from the system locale.">>, "str"),
      Fn(Priv(<<"get", "country", "codes">>), m, <<>>,
         <<"Parse iso3166.tab to build a country-name -> country-code mapping.">>, "dict"),
      Fn(Priv(<<"get", "country", "name">>), m, <<P("code", "str", FALSE)>>,
         <<"Look up a country name by its ISO 3166 code.">>, "str"),
      Fn(Priv(<<"get", "zone", "tab">>), m, <<>>,
         <<"Parse zone.tab to build a country-code -> timezones mapping.">>, "dict"),
      Fn(U(<<"configured", "timezone">>), m, <<>>,
         <<"Get the currently configured timezone.", "", "Returns:">>, "str"),
      NonFn(<<"datetime">>, "class", <<"datetime">>),
      Fn(U(<<"get", "current", "datetime">>), m, <<P("time_zone", "str", TRUE)>>,
         <<"Get the current date and time in JSON format.", "", "Args:">>, "str"),
      Fn(U(<<"get", "timezones">>), m, <<P("country_code", "str", TRUE)>>,
         <<"Get all timezones for a country.", "", "Args:">>, "str"),
      NonFn(<<"json">>, "module", <<"json">>)>>

\* utils/datetime.py
DatetimeMembers ==
    LET m == ModuleName(DatetimeStem) IN
    <<NonFn(<<"ZoneInfo">>, "class", <<"zoneinfo">>),
      Fn(Priv(<<"detect", "country", "code", "from", "locale">>), m, <<>>,
         <<"Detect country code from the system locale.">>, "str"),
      Fn(Priv(<<"get", "country", "codes">>), m, <<>>,
         <<"Parse iso3166.tab to build a country-name -> country-code mapping.">>, "dict"),
      Fn(Priv(<<"get", "country", "name">>), m, <<P("code", "str", FALSE)>>,
         <<"Look up a country name by its ISO 3166 code.">>, "str"),
      Fn(Priv(<<"get", "local", "iana", "timezone">>), m, <<>>,
         <<"Get the local IANA timezone name.", "", "Detection order:">>, "str"),
      Fn(Priv(<<"get", "zone", "tab">>), m, <<>>,
         <<"Parse zone.tab to build a country-code -> timezones mapping.">>, "dict"),
      Fn(Priv(<<"resolve", "timezone">>), m, <<P("time_zone", "str", FALSE)>>,
         <<"Resolve a timezone string to a ZoneInfo object.", "", "Accepts IANA names">>, "other"),
      Fn(U(<<"available", "timezones">>), <<"zoneinfo", ".", "_", "tzpath">>, <<>>,
         <<"Returns a set containing all available time zones.">>, "other"),
      Fn(U(<<"configured", "timezone">>), m, <<>>,
         <<"Get the currently configured local timezone.", "", "Returns:">>, "dict"),
      Fn(U(<<"country", "timezones">>), m, <<P("country_code", "str", TRUE)>>,
         <<"Get all timezones for a country.", "", "Args:">>, "dict"),
      Fn(<<"current">>, m, <<P("time_zone", "str", TRUE)>>,
         <<"Get the current date and time.", "", "Args:">>, "dict"),
      NonFn(<<"datetime">>, "class", <<"datetime">>)>>

\* utils/ip_address.py (the module has no docstring)
IpAddressMembers ==
    LET m == ModuleName(IpAddressStem) IN
    <<NonFn(<<"json">>, "module", <<"json">>),
      Fn(U(<<"my", "approximate", "physical", "location">>), m, <<>>,
         <<"Get your current approximate physical location based on your public IP.",
           "", "Returns:">>, "str"),
      Fn(U(<<"my", "public", "ip", "address">>), m, <<>>,
         <<"Get your current public IP address, physical location, and ISP name.",
           "", "Queries ipinfo.io to retrieve the caller's public-facing">>, "str")>>

\* one-parameter and two-parameter float signatures of utils/math.py
FloatA(n) == <<P(n, "float", FALSE)>>
FloatAB(a, b) == <<P(a, "float", FALSE), P(b, "float", FALSE)>>

\* utils/math.py
MathMembers ==
    LET m == ModuleName(MathStem) IN
    <<Fn(<<"absolute">>, m, FloatA("a"), <<"Get the absolute value of a number.">>, "dict"),
      Fn(<<"acos">>, m, FloatA("value"), <<"Inverse cosine, returns angle in degrees.">>, "dict"),
      Fn(<<"add">>, m, FloatAB("a", "b"), <<"Add two numbers.">>, "dict"),
      Fn(<<"asin">>, m, FloatA("value"), <<"Inverse sine, returns angle in degrees.">>, "dict"),
      Fn(<<"atan">>, m, FloatA("value"), <<"Inverse tangent, returns angle in degrees.">>, "dict"),
      Fn(<<"ceil">>, m, FloatA("a"), <<"Round up to the nearest integer.">>, "dict"),
      Fn(<<"constants">>, m, <<>>, <<"Return common mathematical constants.">>, "dict"),
      Fn(<<"cos">>, m, FloatA("degrees"), <<"Cosine of an angle in degrees.">>, "dict"),
      Fn(U(<<"degrees", "to", "radians">>), m, FloatA("degrees"),
         <<"Convert degrees to radians.">>, "dict"),
      Fn(<<"divide">>, m, FloatAB("a", "b"), <<"Divide a by b.">>, "dict"),
      Fn(<<"factorial">>, m, <<P("n", "int", FALSE)>>,
         <<"Get the factorial of a non-negative integer.">>, "dict"),
      Fn(<<"floor">>, m, FloatA("a"), <<"Round down to the nearest integer.">>, "dict"),
      Fn(<<"hypotenuse">>, m, FloatAB("a", "b"),
         <<"Compute the hypotenuse of a right triangle.">>, "dict"),
      Fn(<<"ln">>, m, FloatA("a"), <<"Natural logarithm (base e) of a.">>, "dict"),
      Fn(<<"log">>, m, <<P("a", "float", FALSE), P("base", "float", TRUE)>>,
         <<"Logarithm of a with given base (default base 10).">>, "dict"),
      NonFn(<<"math">>, "module", <<"math">>),
      Fn(<<"modulo">>, m, FloatAB("a", "b"), <<"Get remainder of a divided by b.">>, "dict"),
      Fn(<<"multiply">>, m, FloatAB("a", "b"), <<"Multiply two numbers.">>, "dict"),
      Fn(<<"power">>, m, FloatAB("base", "exponent"),
         <<"Raise base to the power of exponent.">>, "dict"),
      Fn(U(<<"radians", "to", "degrees">>), m, FloatA("radians"),
         <<"Convert radians to degrees.">>, "dict"),
      Fn(U(<<"round", "number">>), m, <<P("a", "float", FALSE), P("decimals", "int", TRUE)>>,
         <<"Round a number to a given number of decimal places.">>, "dict"),
      Fn(<<"sin">>, m, FloatA("degrees"), <<"Sine of an angle in degrees.">>, "dict"),
      Fn(U(<<"square", "root">>), m, FloatA("a"), <<"Get the square root of a number.">>, "dict"),
      Fn(<<"subtract">>, m, FloatAB("a", "b"), <<"Subtract b from a.">>, "dict"),
      Fn(<<"tan">>, m, FloatA("degrees"), <<"Tangent of an angle in degrees.">>, "dict")>>

\* text and algorithm parameters of utils/text.py
TextAlg(first) == <<P(first, "str", FALSE), P("algorithm", "str", TRUE)>>

\* utils/text.py
TextMembers ==
    LET m == ModuleName(TextStem) IN
    <<NonFn(<<"MistralTokenizer">>, "class",
            <<"mistral", "_", "common", ".", "tokens", ".", "tokenizers", ".", "mistral">>),
      NonFn(Priv(<<"get", "snowball", "stemmer">>), "lru_cache_wrapper", m),
      Fn(Priv(<<"stem", "word">>), m,
         <<P("word", "str", FALSE), P("algorithm", "str", FALSE)>>,
         <<"Stem a word using the requested algorithm.">>, "str"),
      Fn(U(<<"characters", "count">>), m, <<P("text", "str", FALSE)>>,
         <<"Count the number of characters in a text string.", "", "Args:">>, "dict"),
      Fn(U(<<"llm", "tokenize">>), m, TextAlg("text"),
         <<"Tokenize text using Mistral or tiktoken tokenizers.", "", "Args:">>, "dict"),
      Fn(U(<<"lru", "cache">>), <<"functools">>,
         <<P("maxsize", "none", TRUE), P("typed", "none", TRUE)>>,
         <<"Least-recently-used cache decorator.", "", "If *maxsize* is set to None">>, "other"),
      Fn(U(<<"nlp", "tokenize">>), m, TextAlg("text"),
         <<"Tokenize text into normalized stemmed words.", "", "This function:">>, "dict"),
      Fn(U(<<"show", "characters">>), m, <<P("word", "str", FALSE)>>,
         <<"Show each character from an input word/string.", "", "Args:">>, "dict"),
      Fn(U(<<"word", "stem">>), m, TextAlg("word"),
         <<"Return a stemmed form of a word.", "", "Args:">>, "dict"),
      Fn(U(<<"words", "count">>), m, <<P("text", "str", FALSE)>>,
         <<"Count the number of words in a text string.", "", "Args:">>, "dict")>>

\* utils/user_info.py
UserInfoMembers ==
    LET m == ModuleName(UserInfoStem) IN
    <<Fn(Priv(<<"compute", "age">>), m, <<P("birthday", "str", FALSE)>>,
         <<"Compute age from a birthday string (YYYY-MM-DD).">>, "int"),
      Fn(Priv(<<"get", "full", "name">>), m, <<>>,
         <<"Get the current Unix full name of the current user.">>, "str"),
      Fn(Priv(<<"get", "username">>), m, <<>>,
         <<"Get the current Unix username.">>, "str"),
      NonFn(<<"date">>, "class", <<"datetime">>),
      Fn(U(<<"personal", "information">>), m, <<>>,
         <<"Get current user's personal information.">>, "dict")>>

\* utils/user_information.py
UserInformationMembers ==
    LET m == ModuleName(UserInformationStem) IN
    <<Fn(Priv(<<"ask", "user">>), m, <<P("existing", "other", TRUE)>>,
         <<"Prompt the user for required personal info fields.", "", "Args:">>, "dict"),
      Fn(Priv(<<"compute", "age">>), m, <<P("birthday", "str", FALSE)>>,
         <<"Compute age from a birthday string (YYYY-MM-DD).">>, "int"),
      Fn(Priv(<<"ensure", "user", "info">>), m, <<>>,
         <<"Create or update user.data.json interactively.", "", "If the file">>, "none"),
      Fn(Priv(<<"get", "full", "name">>), m, <<>>,
         <<"Get the current user's full name across macOS/Linux.", "", "Preference order:">>,
         "str"),
      Fn(Priv(<<"get", "username">>), m, <<>>,
         <<"Get the current Unix username.">>, "str"),
      Fn(Priv(<<"is", "missing">>), m,
         <<P("field", "str", FALSE), P("value", "other", FALSE)>>,
         <<"Return True if a required field value is missing/invalid.">>, "bool"),
      NonFn(<<"date">>, "class", <<"datetime">>),
      Fn(U(<<"personal", "data">>), m, <<>>,
         <<"Get current user's personal data.", "", "Returns:">>, "dict")>>

\* utils/weather.py
WeatherMembers ==
    LET m == ModuleName(WeatherStem) IN
    <<Fn(Priv(<<"convert", "temp", "str">>), m,
         <<P("text", "str", FALSE), P("celsius", "bool", FALSE)>>,
         <<"Replace degF values with degC in a string.">>, "str"),
      Fn(Priv(<<"extract", "temp", "number">>), m, <<P("text", "str", FALSE)>>,
         <<"Pull the first integer from a temperature string.">>, "other"),
      Fn(Priv(<<"f", "to", "c">>), m, <<P("fahrenheit", "float", FALSE)>>,
         <<"Convert Fahrenheit to Celsius, rounded.">>, "float"),
      Fn(Priv(<<"find">>), m, <<P("pattern", "str", FALSE), P("html", "str", FALSE)>>,
         <<"Search HTML for pattern, return group(1) stripped.">>, "str"),
      Fn(Priv(<<"html", "to", "markdown">>), m, <<P("html", "str", FALSE)>>,
         <<"Basic HTML-to-Markdown conversion for weather page.", "", "Strips scripts/styles">>, "str"),
      Fn(Priv(<<"parse", "current">>), m, <<P("html", "str", FALSE)>>,
         <<"Extract current conditions from NWS page HTML.">>, "dict"),
      Fn(Priv(<<"parse", "forecast">>), m, <<P("html", "str", FALSE)>>,
         <<"Extract forecast periods from NWS page HTML.">>, "other"),
      Fn(Priv(<<"prefer", "celsius">>), m, <<>>,
         <<"Check if the system prefers Celsius.", "", "On macOS, reads">>, "bool"),
      Fn(Priv(<<"strip", "tags">>), m, <<P("html", "str", FALSE)>>,
         <<"Remove HTML tags and decode common entities.">>, "str"),
      Fn(U(<<"current", "with", "forecast">>), m,
         <<P("latitude", "float", FALSE), P("longitude", "float", FALSE),
           P("unit", "str", TRUE)>>,
         <<"Get current weather and forecast for a US location.", "", "Queries the">>, "dict"),
      Fn(U(<<"temperature", "unit", "for", "country">>), m,
         <<P("country_code", "str", FALSE)>>,
         <<"Get the default temperature unit for a country.", "", "Args:">>, "dict")>>

\* dir(module) of the module imported for a file stem
ModuleMembers(stem) ==
    CASE stem = DateTimeStem -> DateTimeMembers
      [] stem = DatetimeStem -> DatetimeMembers
      [] stem = IpAddressStem -> IpAddressMembers
      [] stem = MathStem -> MathMembers
      [] stem = TextStem -> TextMembers
      [] stem = UserInfoStem -> UserInfoMembers
      [] stem = UserInformationStem -> UserInformationMembers
      [] stem = WeatherStem -> WeatherMembers
      [] stem = HelpersStem -> HelpersMembers
      [] stem = TextBrokenStem -> <<>>
      [] stem = DoubleStem ->
            <<Fn(<<"now">>, ModuleName(DoubleStem), <<>>, <<"The time.">>, "dict")>>

\* module.__doc__ as its lines
ModuleDoc(stem) ==
    CASE stem = DateTimeStem -> <<"Date and time utilities.">>
      [] stem = DatetimeStem -> <<"Date and time utilities.">>
      [] stem = IpAddressStem -> <<>>
      [] stem = MathStem -> <<"Standard and scientific calculator utilities.">>
      [] stem = TextStem -> <<"Accurate tool for text analysis and manipulation utilities.">>
      [] stem = UserInfoStem -> <<"Current user's personal information utilities.">>
      [] stem = UserInformationStem -> <<"Current user's personal information utilities.">>
      [] stem = WeatherStem -> <<"Weather forecast utilities (US only, via weather.gov).">>
      [] stem = HelpersStem -> <<"Helpers.">>
      [] stem = TextBrokenStem -> <<>>
      [] stem = DoubleStem -> <<"Time utilities.">>

\* the subsequence of the elements that pass a test, in order
Filter(seq, keep(_)) ==
    LET F[i \in 0..Len(seq)] ==
            IF i = 0 THEN <<>>
            ELSE IF keep(seq[i]) THEN Append(F[i - 1], seq[i]) ELSE F[i - 1]
    IN F[Len(seq)]

\* inspect.getmembers(module, inspect.isfunction)
GetFunctionMembers(stem) ==
    LET IsFunction(o) == o.kind = "function"
    IN Filter(ModuleMembers(stem), IsFunction)

(* ------------------------------------------------------------------ *)
(* Discovery: the filter and the two registries                       *)
(* ------------------------------------------------------------------ *)

\* IsOperation without the __module__ test: imported functions pass
IsOperation_NoModuleTest(obj, stem) == ~StartsWithUnderscore(obj.name)

\* utils.py:40: not name.startswith("_") and obj.__module__ == module.__name__
IsOperation(obj, stem) ==
    ~StartsWithUnderscore(obj.name) /\ obj.module = ModuleName(stem)

\* mcp_server.py:54: the same test in the tool server's scan
IsTool(obj, stem) ==
    ~StartsWithUnderscore(obj.name) /\ obj.module = ModuleName(stem)

\* mcp_server.py:53-55: the functions of one module handed to mcp.tool()
DiscoveredTools(stem) ==
    LET Keep(o) == IsTool(o, stem)
    IN Filter(GetFunctionMembers(stem), Keep)

\* utils.py:38-41: the funcs dict built for one module (insertion order)
DiscoveredFuncs(stem) ==
    LET Keep(o) == IsOperation(o, stem)
    IN Filter(GetFunctionMembers(stem), Keep)

\* IsSkippedFile that skips no file
IsSkippedFile_Never(stem) == FALSE

\* module_path.name.startswith("_"): files skipped by both scans
IsSkippedFile(stem) == StartsWithUnderscore(stem)

\* functools.wraps(func) copies __name__, and mcp.tool() called without a
\* name registers the wrapper under wrapper.__name__
ToolName(stem, obj) == obj.name

\* f"{ns}__{name}": the qualified identifier of the CLI
QualifiedName(ns, name) == ns \o Sep \o name

(* ------------------------------------------------------------------ *)
(* Argument coercion (utils.py:121-131)                               *)
(* ------------------------------------------------------------------ *)

Digits == {"0", "1", "2", "3", "4", "5", "6", "7", "8", "9"}

\* the value of a run of digits
RECURSIVE DigitsVal(_)
DigitsVal(s) ==
    LET DigitVal(t) ==
            CASE t = "0" -> 0 [] t = "1" -> 1 [] t = "2" -> 2 [] t = "3" -> 3
              [] t = "4" -> 4 [] t = "5" -> 5 [] t = "6" -> 6 [] t = "7" -> 7
              [] t = "8" -> 8 [] t = "9" -> 9
    IN IF Len(s) = 0 THEN 0
       ELSE 10 * DigitsVal(SubSeq(s, 1, Len(s) - 1)) + DigitVal(s[Len(s)])

RECURSIVE Pow10(_)
Pow10(n) == IF n = 0 THEN 1 ELSE 10 * Pow10(n - 1)

Unsigned(s) == IF Len(s) >= 1 /\ s[1] \in {"-", "+"} THEN Tail(s) ELSE s
SignOf(s) == IF Len(s) >= 1 /\ s[1] = "-" THEN -1 ELSE 1

\* the position of the "." of s, 0 when it has none or more than one
PointAt(s) ==
    LET ps == {i \in 1..Len(s) : s[i] = "."}
    IN IF Cardinality(ps) = 1 THEN CHOOSE i \in ps : TRUE ELSE 0

\* float(arg) succeeds: sign, digits with at most one point and at least one
\* digit, or a signed inf/nan word
IsFloatLiteral(s) ==
    LET u == Unsigned(s)
        p == PointAt(u)
        whole == IF p = 0 THEN u ELSE SubSeq(u, 1, p - 1)
        frac == IF p = 0 THEN <<>> ELSE SubSeq(u, p + 1, Len(u))
    IN \/ u \in {<<"inf">>, <<"infinity">>, <<"nan">>}
       \/ /\ \A i \in 1..Len(u) : u[i] \in Digits \cup {"."}
          /\ (p = 0) = (\A i \in 1..Len(u) : u[i] # ".")
          /\ Len(whole) + Len(frac) >= 1

\* argument values: an int or a float is the rational num/den, a str keeps
\* its text
IntV(n) == [t |-> "int", num |-> n, den |-> 1, s |-> <<>>]
FloatV(n, d) == [t |-> "float", num |-> n, den |-> d, s |-> <<>>]
StrV(s) == [t |-> "str", num |-> 0, den |-> 1, s |-> s]

\* int(arg) for an int literal
ParseInt(s) == IntV(SignOf(s) * DigitsVal(Unsigned(s)))

\* float(arg) for a float literal of digits
ParseFloat(s) ==
    LET u == Unsigned(s)
        p == PointAt(u)
        whole == IF p = 0 THEN u ELSE SubSeq(u, 1, p - 1)
        frac == IF p = 0 THEN <<>> ELSE SubSeq(u, p + 1, Len(u))
    IN FloatV(SignOf(s) * DigitsVal(whole \o frac), Pow10(Len(frac)))

\* utils.py:128: hint in (int, float)
IsNumericHint(hint) == hint \in {"int", "float"}

\* hint(arg) raises ValueError
CoerceFails(hint, arg) ==
    \/ /\ hint = "int"
       \* int(arg) succeeds on an optional sign and decimal digits (the
       \* arguments of the model hold digits, signs, points and words only)
       /\ LET u == Unsigned(arg)
          IN ~(Len(u) >= 1 /\ \A i \in 1..Len(u) : u[i] \in Digits)
    \/ hint = "float" /\ ~IsFloatLiteral(arg)

\* Coerce that converts for the int hint only and passes floats as text
Coerce_IntOnly(hint, arg) ==
    IF hint = "int" THEN ParseInt(arg) ELSE StrV(arg)

\* utils.py:127-131: one element of typed_args
Coerce(hint, arg) ==
    IF IsNumericHint(hint)
    THEN IF hint = "int" THEN ParseInt(arg) ELSE ParseFloat(arg)
    ELSE StrV(arg)

\* utils.py:122-126: zip(func_args, sig.parameters.values(), strict=False)
\* pairs the arguments with the parameters and stops at the shorter of the two
ZipLen(func_args, params) ==
    IF Len(func_args) <= Len(params) THEN Len(func_args) ELSE Len(params)

\* some hint(arg) of the loop raises
AnyCoerceFails(func_args, params) ==
    \E i \in 1..ZipLen(func_args, params) : CoerceFails(params[i].hint, func_args[i])

\* typed_args after the loop, when no conversion raised
TypedArgs(func_args, params) ==
    [i \in 1..ZipLen(func_args, params) |-> Coerce(params[i].hint, func_args[i])]

\* parameters without a default
Required(params) == {i \in 1..Len(params) : ~params[i].hasDefault}

\* func(*typed_args) raises TypeError at argument binding
BindFails(typed, params) ==
    \/ Len(typed) > Len(params)
    \/ \E i \in Required(params) : i > Len(typed)


(* ------------------------------------------------------------------ *)
(* The operations: what a call returns or raises                      *)
(* ------------------------------------------------------------------ *)

\* a value of the profile file: no such key (or null), a string, a list of
\* strings, an integer, a structured name {"first", "middle", "last"}
NoValue == [k |-> "none", s |-> "", items |-> <<>>]
StrValue(s) == [k |-> "str", s |-> s, items |-> <<>>]
ListValue(items) == [k |-> "list", s |-> "", items |-> items]
IntValue(n) == [k |-> "int", s |-> "", items |-> <<n>>]
NameValue(first, middle, last) == [k |-> "dict", s |-> "", items |-> <<first, middle, last>>]

\* user_information.py:97, user_info.py:47
_REQUIRED_FIELDS == <<"birthday", "email", "phone", "addresss">>

\* a profile file with every required field
CompleteProfile ==
    [birthday |-> StrValue("1990-01-31"), email |-> StrValue("jane@example.com"),
     phone |-> StrValue("+1-555-123-4567"), addresss |-> ListValue(<<"123 Main St">>),
     name |-> NoValue, long_name |-> NoValue, age |-> NoValue, nickname |-> NoValue]

\* the file {}
EmptyProfile == [f \in DOMAIN CompleteProfile |-> NoValue]

\* the profile files tried: the complete one, the ones with one field absent,
\* empty or ill-formed, the file with only an email, the file {}, complete
\* files with other birthdays, with a name (absent, blank, plain, structured)
\* and with a stored long_name, age and nickname
ProfileFiles ==
    {CompleteProfile}
    \cup {[CompleteProfile EXCEPT !.birthday = StrValue(b)] :
              b \in {"2000-02-29", "2026-01-31"}}
    \cup {[CompleteProfile EXCEPT !.name = n] :
              n \in {StrValue(" "), StrValue(" Jane R "), NameValue("", " ", ""),
                     NameValue(" Jane ", "", "Roe"), NameValue("Jane", "Q", "Roe")}}
    \cup {[CompleteProfile EXCEPT !.name = n, !.long_name = StrValue("Stored Name"),
                                  !.age = IntValue(99), !.nickname = StrValue("JJ")] :
              n \in {NoValue, StrValue(" Jane R ")}}
    \cup {[CompleteProfile EXCEPT !.birthday = v] :
              v \in {NoValue, StrValue(""), StrValue("soon")}}
    \cup {[CompleteProfile EXCEPT !.email = v] : v \in {NoValue, StrValue("")}}
    \cup {[CompleteProfile EXCEPT !.phone = v] : v \in {NoValue, StrValue("")}}
    \cup {[CompleteProfile EXCEPT !.addresss = v] :
              v \in {NoValue, StrValue("123 Main St"), ListValue(<<>>),
                     ListValue(<<" ">>)}}
    \cup {[EmptyProfile EXCEPT !.email = e, !.nickname = n] :
              e \in {NoValue, StrValue("jane@example.com")}, n \in {NoValue, StrValue("JJ")}}

\* a date: year, month, day
Date(y, m, d) == [year |-> y, month |-> m, day |-> d]

\* date.today() on the days the operations are run
Todays ==
    {Date(2026, 1, 30), Date(2026, 1, 31), Date(2026, 2, 28), Date(2026, 3, 1),
     Date(2027, 1, 30)}

\* the state of the profile file: whether it exists, and what it holds
ProfileStates ==
    {[exists |-> FALSE, data |-> EmptyProfile]}
    \cup {[exists |-> TRUE, data |-> d] : d \in ProfileFiles}

\* what an operation reads from outside the process: whether the network
\* answers, the state of the profile file, whether `id -F` works (it does on
\* macOS, not on Linux) and whether the locale names a country
Envs ==
    [net : {"ok", "fail"}, cfg : ProfileStates, idF : BOOLEAN, locale : BOOLEAN,
     today : Todays]

\* the results of a call: a dict with its keys, a str, or an exception with
\* the field names its message lists.  jsonable is FALSE for a dict
\* json.dumps cannot serialize
\* vals holds the values of the keys the model follows
RetDict(keys) ==
    [kind |-> "dict", keys |-> keys, jsonable |-> TRUE, exc |-> "", names |-> <<>>,
     vals |-> <<>>]
RetStr ==
    [kind |-> "str", keys |-> {}, jsonable |-> TRUE, exc |-> "", names |-> <<>>,
     vals |-> <<>>]
RaiseNaming(exc, names) ==
    [kind |-> "raise", keys |-> {}, jsonable |-> FALSE, exc |-> exc, names |-> names,
     vals |-> <<>>]

\* return {...} of a dict given by its keys and values
RetVals(vals) == [RetDict(DOMAIN vals) EXCEPT !.vals = vals]
Raise(exc) == RaiseNaming(exc, <<>>)

\* the i-th positional argument, or the default of the parameter
ArgOr(args, i, default) == IF i <= Len(args) THEN args[i] ELSE default

IsZero(v) == v.num = 0
IsNeg(v) == v.num < 0
\* a <= b for values with positive denominators
Leq(a, b) == a.num * b.den <= b.num * a.den

\* x % m of Python for integers: the remainder has the sign of m
PyMod(x, m) == IF m > 0 THEN x % m ELSE 0 - ((0 - x) % (0 - m))

\* Quotient with the operands exchanged
Quotient_Inverted(a, b) ==
    IF a.num < 0 THEN FloatV(0 - b.num * a.den, 0 - b.den * a.num)
    ELSE FloatV(b.num * a.den, b.den * a.num)

\* math.py:26 a / b for b # 0, as a fraction with a positive denominator
Quotient(a, b) ==
    IF b.num < 0 THEN FloatV(0 - a.num * b.den, 0 - a.den * b.num)
    ELSE FloatV(a.num * b.den, a.den * b.num)

\* math.py:33 a % b for b # 0
Remainder(a, b) == FloatV(PyMod(a.num * b.den, b.num * a.den), a.den * b.den)

\* utils/math.py
MathCall(name, args) ==
    LET a == args[1]
        ok == RetDict({"result"})
        err == RetDict({"error"})
    IN CASE name = <<"divide">> ->
                IF IsZero(args[2]) THEN err ELSE RetVals([result |-> Quotient(a, args[2])])
         [] name = <<"modulo">> ->
                IF IsZero(args[2]) THEN err ELSE RetVals([result |-> Remainder(a, args[2])])
         [] name = <<"power">> ->
                IF IsZero(a) /\ IsNeg(args[2]) THEN Raise("ZeroDivisionError")
                ELSE IF IsNeg(a) /\ args[2].num % args[2].den # 0
                     THEN [RetDict({"result"}) EXCEPT !.jsonable = FALSE]
                     ELSE ok
         [] name = U(<<"square", "root">>) -> IF IsNeg(a) THEN err ELSE ok
         [] name = <<"factorial">> -> IF IsNeg(a) THEN err ELSE ok
         [] name = <<"log">> ->
                LET base == ArgOr(args, 2, FloatV(10, 1)) IN
                IF ~IsNeg(a) /\ ~IsZero(a) /\ ~IsNeg(base) /\ ~IsZero(base)
                   /\ base.num # base.den
                THEN ok ELSE err
         [] name = <<"ln">> -> IF IsNeg(a) \/ IsZero(a) THEN err ELSE ok
         [] name \in {<<"asin">>, <<"acos">>} ->
                IF Leq(FloatV(-1, 1), a) /\ Leq(a, FloatV(1, 1)) THEN ok ELSE err
         [] name = <<"constants">> -> RetDict({"pi", "e", "tau", "inf"})
         [] OTHER -> ok

\* zone names ZoneInfo() accepts, among the strings of the model; they are
\* the members of available_timezones()
KnownZones == {<<"UTC">>, <<"America", "/", "Los", "_", "Angeles">>}

\* datetime.py:11-51 _ABBREV_TO_IANA.get(abbrev), among the strings of the
\* model; <<>> is None
_ABBREV_TO_IANA(abbrev) ==
    CASE abbrev = <<"PST">> -> <<"America", "/", "Los", "_", "Angeles">>
      [] abbrev = <<"UTC">> -> <<"UTC">>
      [] OTHER -> <<>>

\* str.upper() and str.lower() on the words of the model
Upper(s) ==
    LET UpperTok(t) ==
            CASE t \in {"pst", "Pst"} -> "PST" [] t = "utc" -> "UTC" [] t = "us" -> "US"
              [] t \in {"usa", "Usa"} -> "USA" [] t = "lr" -> "LR" [] t = "lbr" -> "LBR"
              [] t = "fr" -> "FR" [] t = "fra" -> "FRA"
              [] t = "x" -> "X" [] t = "math" -> "MATH" [] OTHER -> t
    IN [i \in 1..Len(s) |-> UpperTok(s[i])]
Lower(s) ==
    LET LowerTok(t) ==
            CASE t = "PST" -> "pst" [] t = "UTC" -> "utc" [] t = "US" -> "us"
              [] t \in {"GPT", "Gpt"} -> "gpt" [] t = "Snowball" -> "snowball"
              [] t \in {"MISTRAL", "Mistral"} -> "mistral" [] t = "V" -> "v"
              [] OTHER -> t
    IN [i \in 1..Len(s) |-> LowerTok(s[i])]

\* str.strip(): the string without its leading and trailing spaces
RECURSIVE Strip(_)
Strip(s) ==
    IF Len(s) = 0 THEN s
    ELSE IF Head(s) = " " THEN Strip(Tail(s))
    ELSE IF s[Len(s)] = " " THEN Strip(SubSeq(s, 1, Len(s) - 1))
    ELSE s

\* utils/date_time.py get_timezones: json.dumps(...) on every path
GetTimezones(country_code) == RetStr

\* utils/date_time.py: every operation returns a str; ZoneInfo(time_zone)
\* is not guarded
DateTimeCall(name, args) ==
    LET a == ArgOr(args, 1, StrV(<<>>)).s IN
    CASE name = U(<<"get", "current", "datetime">>) ->
            IF a # <<>> /\ a \notin KnownZones
            THEN Raise("ZoneInfoNotFoundError")
            ELSE RetStr
      [] name = U(<<"configured", "timezone">>) -> GetTimezones(<<>>)
      [] name = U(<<"get", "timezones">>) -> GetTimezones(a)

\* _resolve_timezone that looks the abbreviation up as it is written
_resolve_timezone_AsWritten(time_zone) ==
    IF time_zone = <<>> THEN <<>>
    ELSE IF "/" \in Range(time_zone)
         THEN IF time_zone \in KnownZones THEN time_zone ELSE <<>>
    ELSE IF _ABBREV_TO_IANA(time_zone) # <<>> THEN _ABBREV_TO_IANA(time_zone)
    ELSE IF time_zone \in KnownZones THEN time_zone
    ELSE <<>>

\* datetime.py:54-83 _resolve_timezone: the key of the ZoneInfo returned, <<>>
\* for None.  ZoneInfo(name) raises KeyError or ValueError for a name it
\* does not accept, and both are caught
_resolve_timezone(time_zone) ==
    IF time_zone = <<>> THEN <<>>
    ELSE IF "/" \in Range(time_zone)
         THEN IF time_zone \in KnownZones THEN time_zone ELSE <<>>
    ELSE IF _ABBREV_TO_IANA(Upper(time_zone)) # <<>> THEN _ABBREV_TO_IANA(Upper(time_zone))
    ELSE IF time_zone \in KnownZones THEN time_zone
    ELSE <<>>

\* utils/datetime.py
DatetimeCall(name, args, env) ==
    LET a == ArgOr(args, 1, StrV(<<>>)).s
        \* country codes of zone.tab, among the strings of the model
        KnownCountries == {<<"US">>}
    IN
    CASE name = U(<<"configured", "timezone">>) -> RetDict({"timezone_name"})
      [] name = U(<<"country", "timezones">>) ->
            IF (a = <<>> /\ ~env.locale) \/ (a # <<>> /\ Upper(a) \notin KnownCountries)
            THEN RetDict({"error"})
            ELSE RetDict({"country", "country_code", "timezones", "count"})
      [] name = <<"current">> ->
            IF a = <<>> THEN RetDict({"date_time", "timezone"})
            ELSE IF _resolve_timezone(a) = <<>> THEN RetDict({"error"})
            ELSE [RetDict({"date_time", "timezone"})
                     EXCEPT !.vals = [timezone |-> [name |-> _resolve_timezone(a)]]]

\* utils/ip_address.py: urlopen is not guarded, the result is json.dumps(...)
IpAddressCall(name, env) ==
    IF env.net = "fail" THEN Raise("URLError") ELSE RetStr

\* utils/text.py llm_tokenize: the name is stripped, lowered for the mistral
\* branch, and passed as it is to tiktoken.get_encoding, which knows the
\* names of tiktoken.list_encoding_names() as they are written
LlmTokenize(algorithm) ==
    LET encoding_name == IF Strip(algorithm) = <<>> THEN <<"mistral", "_", "v", "3">>
                         ELSE Strip(algorithm)
        \* the keys of mistral_factories
        MistralNames == {<<"mistral", "_", "v", d>> : d \in {"1", "2", "3"}}
        \* tiktoken.list_encoding_names(), among the strings of the model
        TiktokenNames == {<<"gpt", "2">>}
        Tokens(alg, backend) ==
            [RetDict({"text", "algorithm", "tokenizer_backend", "tokens", "token_ids",
                      "token_count"})
                EXCEPT !.vals = [algorithm |-> alg, tokenizer_backend |-> backend]]
    IN IF Len(encoding_name) >= 2 /\ SubSeq(Lower(encoding_name), 1, 2) = <<"mistral", "_">>
       THEN IF Lower(encoding_name) \in MistralNames
            THEN Tokens(Lower(encoding_name), "mistral_common")
            ELSE RetDict({"text", "error"})
       ELSE IF encoding_name \in TiktokenNames
            THEN Tokens(encoding_name, "tiktoken")
            ELSE RetDict({"text", "error", "available_algorithms"})

\* utils/text.py
TextCall(name, args) ==
    LET snowball == ArgOr(args, 2, StrV(<<"snowball">>)).s IN
    CASE name = U(<<"words", "count">>) -> RetDict({"words"})
      [] name = U(<<"characters", "count">>) -> RetDict({"characters"})
      [] name = U(<<"show", "characters">>) -> RetDict({"word", "characters"})
      [] name = U(<<"word", "stem">>) ->
            IF Lower(snowball) = <<"snowball">>
            THEN RetDict({"word", "stem", "algorithm"})
            ELSE RetDict({"word", "error"})
      [] name = U(<<"nlp", "tokenize">>) ->
            IF Lower(snowball) = <<"snowball">>
            THEN RetDict({"text", "algorithm", "tokens", "token_count"})
            ELSE RetDict({"text", "error"})
      [] name = U(<<"llm", "tokenize">>) ->
            LlmTokenize(ArgOr(args, 2, StrV(<<"mistral", "_", "v", "3">>)).s)

\* str.strip() on the strings of the profile files and of the answers
StripStr(s) ==
    CASE s = " " -> "" [] s = " Jane R " -> "Jane R" [] s = " Jane " -> "Jane"
      [] s = " a@b.c " -> "a@b.c" [] OTHER -> s

\* str.strip() of the string is empty
IsBlank(s) == StripStr(s) = ""

\* user_information.py:100-115 _is_missing
_is_missing(field, value) ==
    IF field = "name"
    THEN IF value.k = "dict"
         THEN \A i \in 1..3 : IsBlank(value.items[i])
         ELSE \/ value.k = "none"
              \/ value.k = "str" /\ IsBlank(value.s)
              \/ value.k = "list" /\ value.items = <<>>
    ELSE IF field = "addresss"
    THEN \/ value.k # "list"
         \/ \A i \in 1..Len(value.items) : IsBlank(value.items[i])
    ELSE \/ value.k = "none"
         \/ value.k = "str" /\ value.s = ""
         \/ value.k = "list" /\ value.items = <<>>

\* user_information.py:212-216: the required fields missing from the data
MissingFields(data) ==
    LET Lacks(f) == data[f].k = "none" \/ _is_missing(f, data[f])
    IN Filter(_REQUIRED_FIELDS, Lacks)

\* the keys of the loaded JSON object
DataKeys(data) == {f \in DOMAIN data : data[f].k # "none"}

\* date.fromisoformat(s) on the strings of the model; <<>> when it raises
\* ValueError
fromisoformat(s) ==
    CASE s = "1990-01-31" -> Date(1990, 1, 31)
      [] s = "2000-02-29" -> Date(2000, 2, 29)
      [] s = "2026-01-31" -> Date(2026, 1, 31)
      [] s = "2001-02-03" -> Date(2001, 2, 3)
      [] OTHER -> <<>>

\* date.fromisoformat(str(value)) accepts the value
IsIsoDate(value) == value.k = "str" /\ fromisoformat(value.s) # <<>>

\* _compute_age that counts the calendar years only
_compute_age_YearsOnly(born, today) == today.year - born.year

\* user_information.py:85-93 and user_info.py:32-36 _compute_age, for the
\* parsed birthday and date.today(): a tuple comparison counts as 1 when true
_compute_age(born, today) ==
    LET before == \/ today.month < born.month
                  \/ today.month = born.month /\ today.day < born.day
    IN today.year - born.year - (IF before THEN 1 ELSE 0)

\* the account the operations run under: what _get_username()
\* (user_information.py:73-82) and _get_full_name() (12-70) return
OsAccount == [username |-> "jane", full_name |-> "Jane Doe"]

\* utils/user_info.py personal_information: `id -F` runs with check=True
\* before the file is read; only the file's existence and info["birthday"]
\* are looked at
UserInfoCall(name, env) ==
    IF ~env.idF THEN Raise("CalledProcessError")
    ELSE IF ~env.cfg.exists THEN RaiseNaming("FileNotFoundError", _REQUIRED_FIELDS)
    ELSE IF env.cfg.data.birthday.k = "none" THEN RaiseNaming("KeyError", <<"birthday">>)
    ELSE IF ~IsIsoDate(env.cfg.data.birthday) THEN Raise("ValueError")
    ELSE [RetDict({"name", "long_name", "age"} \cup DataKeys(env.cfg.data))
             EXCEPT !.vals =
                 [age |-> IntValue(_compute_age(fromisoformat(env.cfg.data.birthday.s),
                                                env.today))]]

\* ResolvedNames that trusts whatever name the file holds
ResolvedNames_FileOnly(raw_name) ==
    IF raw_name.k = "none"
    THEN [name |-> StrValue(OsAccount.username), long_name |-> StrValue(OsAccount.full_name)]
    ELSE [name |-> raw_name, long_name |-> StrValue(raw_name.s)]

\* user_information.py:225-240: resolved_name and resolved_long_name
ResolvedNames(raw_name) ==
    LET parts == [i \in 1..3 |-> StripStr(raw_name.items[i])]
        Join[i \in 0..3] ==
            IF i = 0 THEN ""
            ELSE IF parts[i] = "" THEN Join[i - 1]
            ELSE IF Join[i - 1] = "" THEN parts[i]
            ELSE Join[i - 1] \o " " \o parts[i]
    IN IF _is_missing("name", raw_name)
       THEN [name |-> StrValue(OsAccount.username), long_name |-> StrValue(OsAccount.full_name)]
       ELSE IF raw_name.k = "dict"
       THEN [name |-> raw_name,
             long_name |-> StrValue(IF Join[3] = "" THEN OsAccount.full_name ELSE Join[3])]
       ELSE [name |-> raw_name,
             long_name |-> StrValue(IF StripStr(raw_name.s) = "" THEN OsAccount.full_name
                                    ELSE StripStr(raw_name.s))]

\* personal_data whose identity fields are whatever info.update(data) left
personal_data_Raw(data, today) ==
    LET r == ResolvedNames(data.name)
        keys == {"name", "long_name", "age"} \cup DataKeys(data)
        updated == [k \in keys |-> IF k \in DataKeys(data) THEN data[k] ELSE
                                   IF k = "age" THEN NoValue ELSE r[k]]
    IN [RetDict(keys) EXCEPT !.vals =
           [updated EXCEPT !.age = IntValue(_compute_age(fromisoformat(data.birthday.s), today))]]

\* user_information.py:242-251: info = {name, long_name}; info.update(data);
\* then name, long_name and age are assigned
personal_data(data, today) ==
    LET r == ResolvedNames(data.name)
        keys == {"name", "long_name", "age"} \cup DataKeys(data)
        updated == [k \in keys |-> IF k \in DataKeys(data) THEN data[k] ELSE
                                   IF k = "age" THEN NoValue ELSE r[k]]
    IN [RetDict(keys) EXCEPT !.vals =
           [updated EXCEPT !.name = r.name, !.long_name = r.long_name,
                           !.age = IntValue(_compute_age(fromisoformat(data.birthday.s), today))]]

\* utils/user_information.py personal_data
UserInformationCall(name, env) ==
    LET missing == IF ~env.cfg.exists THEN _REQUIRED_FIELDS
                   ELSE MissingFields(env.cfg.data)
    IN IF missing # <<>> THEN RaiseNaming("FileNotFoundError", missing)
       ELSE IF ~IsIsoDate(env.cfg.data.birthday) THEN Raise("ValueError")
       ELSE personal_data(env.cfg.data, env.today)

\* weather.py:13-21: the countries that primarily use Fahrenheit
_FAHRENHEIT_ALPHA2 ==
    {<<"US">>, <<"BS">>, <<"KY">>, <<"LR">>, <<"PW">>, <<"FM">>, <<"MH">>}

\* the table that maps no alpha-3 code
_ALPHA3_TO_ALPHA2_Empty(code) == code

\* weather.py:24-32, read as _ALPHA3_TO_ALPHA2.get(code, code)
_ALPHA3_TO_ALPHA2(code) ==
    CASE code = <<"USA">> -> <<"US">> [] code = <<"BHS">> -> <<"BS">>
      [] code = <<"CYM">> -> <<"KY">> [] code = <<"LBR">> -> <<"LR">>
      [] code = <<"PLW">> -> <<"PW">> [] code = <<"FSM">> -> <<"FM">>
      [] code = <<"MHL">> -> <<"MH">> [] OTHER -> code

\* utils/weather.py; temperature_unit_for_country is weather.py:335-358
WeatherCall(name, args, env) ==
    IF name = U(<<"current", "with", "forecast">>)
    THEN IF env.net = "fail" THEN RetDict({"error"})
         ELSE RetDict({"location", "current", "forecast", "unit"})
    ELSE LET stripped == Upper(Strip(args[1].s))
             upper == IF Len(Chars(stripped)) = 3 THEN _ALPHA3_TO_ALPHA2(stripped)
                      ELSE stripped
             unit == IF upper \in _FAHRENHEIT_ALPHA2 THEN "fahrenheit" ELSE "celsius"
         IN RetVals([country_code |-> upper, default_unit |-> unit])

\* func(*typed_args) for an operation of the registry whose arguments bind
CallOperation(func, args, env) ==
    LET m == func.module IN
    CASE m = ModuleName(MathStem) -> MathCall(func.name, args)
      [] m = ModuleName(DateTimeStem) -> DateTimeCall(func.name, args)
      [] m = ModuleName(DatetimeStem) -> DatetimeCall(func.name, args, env)
      [] m = ModuleName(IpAddressStem) -> IpAddressCall(func.name, env)
      [] m = ModuleName(TextStem) -> TextCall(func.name, args)
      [] m = ModuleName(UserInfoStem) -> UserInfoCall(func.name, env)
      [] m = ModuleName(UserInformationStem) -> UserInformationCall(func.name, env)
      [] m = ModuleName(WeatherStem) -> WeatherCall(func.name, args, env)
      [] m = ModuleName(DoubleStem) -> RetDict({"now"})

\* the parts of the environment an operation reads
Reads(func) ==
    LET m == func.module IN
    CASE m = ModuleName(IpAddressStem) -> {"net"}
      [] m = ModuleName(WeatherStem) /\ func.name = U(<<"current", "with", "forecast">>) ->
            {"net"}
      [] m = ModuleName(UserInfoStem) -> {"idF", "cfg", "today"}
      [] m = ModuleName(UserInformationStem) -> {"cfg", "today"}
      [] m = ModuleName(DatetimeStem) /\ func.name = U(<<"country", "timezones">>) ->
            {"locale"}
      [] m = ModuleName(DateTimeStem) /\ func.name # U(<<"get", "current", "datetime">>) ->
            {"locale"}
      [] OTHER -> {}

\* the environment when nothing outside the process matters
NoEnv ==
    [net |-> "ok", cfg |-> [exists |-> TRUE, data |-> CompleteProfile],
     idF |-> TRUE, locale |-> TRUE, today |-> Date(2026, 1, 31)]

\* the environments an operation can tell apart
EnvsFor(func) ==
    {e \in Envs : \A k \in DOMAIN e : k \notin Reads(func) => e[k] = NoEnv[k]}

\* the JSON value json.dumps(result) prints: an object for a dict, a string
\* for a str
JsonType(ret) == IF ret.kind = "dict" THEN "object" ELSE "string"


(* ------------------------------------------------------------------ *)
(* Command lines                                                      *)
(* ------------------------------------------------------------------ *)

\* the strings given as arguments after the command
ArgStrings ==
    {<<"1">>, <<"0">>, <<"-", "1">>, <<"1", ".", "5">>, <<"x">>, <<"math">>}

\* sequences of at most n arguments
RECURSIVE ArgSeqs(_)
ArgSeqs(n) ==
    IF n = 0 THEN {<<>>}
    ELSE ArgSeqs(n - 1) \cup
         {Append(a, x) : a \in {b \in ArgSeqs(n - 1) : Len(b) = n - 1}, x \in ArgStrings}

\* the first words of the command lines tried: ls, the qualified names, a
\* private helper, names without separator, unknown namespace and function.
\* PublicLooking is every public-looking function attribute of every module,
\* qualified: the operations and the imported functions alike
Commands ==
    LET PublicLooking ==
            UNION {{QualifiedName(UtilsDir[i], o.name) :
                       o \in {x \in Range(GetFunctionMembers(UtilsDir[i])) :
                                  ~StartsWithUnderscore(x.name)}} :
                   i \in 1..Len(UtilsDir)}
    IN
    {<<"ls">>, <<"math">>, <<"add">>, U(<<"date", "time">>)}
    \cup PublicLooking
    \cup {QualifiedName(TextStem, Priv(<<"stem", "word">>)),
          QualifiedName(HelpersStem, <<"helper">>),
          QualifiedName(DoubleStem, <<"now">>),
          QualifiedName(<<"nosuch">>, <<"add">>),
          QualifiedName(MathStem, <<"nosuch">>)}

\* sys.argv[1:]: a command with arguments of ArgStrings, or an operation
\* with the argument strings its result depends on.  CountryArgs are country
\* codes for temperature_unit_for_country: alpha-2 and alpha-3, in either
\* case, with and without spaces around
Argvs ==
    LET CountryArgs ==
            {<<"US">>, <<"us">>, <<"USA">>, <<"usa">>, <<"Usa">>, <<" ", "usa", " ">>,
             <<" ", "US">>, <<"LR">>, <<"lbr">>, <<"FR">>, <<"fra">>, <<"FRA">>}
        \* algorithm names for llm_tokenize, in either case
        AlgorithmArgs ==
            {<<"gpt", "2">>, <<"GPT", "2">>, <<"Gpt", "2">>, <<" ", "gpt", "2">>,
             <<"mistral", "_", "v", "3">>, <<"MISTRAL", "_", "V", "3">>,
             <<"mistral", "_", "v", "9">>}
        \* timezone names for datetime.current: abbreviations in either
        \* case, IANA names, unknown names
        ZoneArgs ==
            {<<"PST">>, <<"pst">>, <<"Pst">>, <<"UTC">>, <<"utc">>,
             <<"America", "/", "Los", "_", "Angeles">>, <<"America", "/", "Nowhere">>,
             <<"NOT", "_", "A", "_", "REAL", "_", "TZ">>}
    IN
    {<<>>}
    \cup {<<c>> \o a : c \in Commands, a \in ArgSeqs(MaxArgs)}
    \cup {<<QualifiedName(DatetimeStem, <<"current">>), a>> : a \in ZoneArgs}
    \cup {<<QualifiedName(TextStem, U(<<"llm", "tokenize">>)), <<"x">>, a>> :
              a \in AlgorithmArgs}
    \cup {<<QualifiedName(WeatherStem, U(<<"temperature", "unit", "for", "country">>)), a>> :
              a \in CountryArgs}

(* ------------------------------------------------------------------ *)
(* State                                                              *)
(* ------------------------------------------------------------------ *)

\* no tool call is being served
NoRequest == [tool |-> <<>>, args |-> <<>>]
NoResponse ==
    [kind |-> "none", keys |-> {}, jsonable |-> FALSE, exc |-> "", names |-> <<>>,
     vals |-> <<>>]

VARIABLES
    prog,        \* what runs: "cli" (utils.py), "server" (mcp_server.py),
                 \* "direct" (a caller of _discover_functions) or "setup"
                 \* (a caller of _ensure_user_info)
    written,     \* what json.dump wrote to the profile file, in order
    utils_dir,   \* sorted(utils_dir.glob("*.py")): the file stems, in scan order
    sys_modules, \* the modules imported so far, in import order
    builds,      \* the registries _discover_functions returned to a direct caller
    request,     \* tool server: the tool call being served, [tool, args]
    response,    \* tool server: what the wrapper returned or raised for it
    pc,          \* position: "discover", "main", "call", "exited", "serving",
                 \* "responding", "setup"
    idx,         \* index in utils_dir of the next file of the scan
    namespaces,  \* CLI registry: sequence of [ns, funcs], in insertion order
    ns_docs,     \* CLI namespace descriptions: sequence of [ns, doc]
    registered,  \* tool server: the mcp.tool() registrations made, in order
    tools,       \* tool server: the tool table of the FastMCP instance
    argv,        \* sys.argv[1:]
    typed_args,  \* the coerced arguments
    env,         \* what the invoked operation found outside the process
    calls,       \* the operations entered: [ns, name, args]
    stdout,      \* the lines printed
    stderr,      \* the uncaught exception reported, if any
    exitCode     \* the exit status once pc = "exited"

vars == <<prog, utils_dir, sys_modules, builds, request, response, pc, idx, namespaces, ns_docs, registered, tools, argv,
          typed_args, env, calls, stdout, stderr, exitCode, written>>

Init ==
    /\ prog \in {"cli", "server", "direct", "setup"}
    /\ utils_dir \in (IF prog = "setup" THEN {UtilsDir}
                       ELSE {sorted(d) : d \in Directories})
    /\ sys_modules = <<>>
    /\ builds = <<>>
    /\ request = NoRequest
    /\ response = NoResponse
    /\ written = <<>>
    /\ pc = IF prog = "setup" THEN "setup" ELSE "discover"
    /\ idx = 1
    /\ namespaces = <<>>
    /\ ns_docs = <<>>
    /\ registered = <<>>
    /\ tools = {}
    /\ argv = <<>>
    /\ typed_args = <<>>
    /\ env = NoEnv
    /\ calls = <<>>
    /\ stdout = <<>>
    /\ stderr = <<>>
    /\ exitCode = 0

(* ------------------------------------------------------------------ *)
(* Registry lookups and printing                                      *)
(* ------------------------------------------------------------------ *)

\* the keys of the namespaces dict, in order: what ", ".join(namespaces) joins
NamespaceNames(reg) == [i \in 1..Len(reg) |-> reg[i].ns]

\* namespace in namespaces
HasNamespace(reg, ns) == \E i \in 1..Len(reg) : reg[i].ns = ns

\* namespaces[namespace]
FuncsOf(reg, ns) == reg[CHOOSE i \in 1..Len(reg) : reg[i].ns = ns].funcs

\* the keys of namespaces[namespace], in order
FuncNames(funcs) == [i \in 1..Len(funcs) |-> funcs[i].name]

\* func_name in namespaces[namespace]
HasFunc(funcs, name) == \E i \in 1..Len(funcs) : funcs[i].name = name

\* namespaces[namespace][func_name]
FuncOf(funcs, name) == funcs[CHOOSE i \in 1..Len(funcs) : funcs[i].name = name]

\* ns_docs.get(ns, "")
DocOf(docs, ns) ==
    IF \E i \in 1..Len(docs) : docs[i].ns = ns
    THEN docs[CHOOSE i \in 1..Len(docs) : docs[i].ns = ns].doc
    ELSE ""

\* a printed line: its kind, the name it shows, the names it lists, its text;
\* sig is the signature shown by a function line, json the type of a printed
\* result and keys the keys of a printed object
Line(kind, name, items, text) ==
    [kind |-> kind, name |-> name, items |-> items, text |-> text,
     sig |-> <<>>, json |-> "none", keys |-> {}, vals |-> <<>>]

Blank == Line("blank", <<>>, <<>>, "")

\* utils.py:56-64 for one function
PrintFunction(ns, func) ==
    <<[Line("func", QualifiedName(ns, func.name), <<>>, "") EXCEPT !.sig = func.params]>>
    \o (IF FirstLine(func.doc) # ""
        THEN <<Line("func_doc", QualifiedName(ns, func.name), <<>>, FirstLine(func.doc))>>
        ELSE <<>>)
    \o <<Blank>>

\* utils.py:50-64 _print_namespace_functions
RECURSIVE PrintNamespaceFunctions(_, _)
PrintNamespaceFunctions(ns, funcs) ==
    IF Len(funcs) = 0 THEN <<>>
    ELSE PrintFunction(ns, Head(funcs)) \o PrintNamespaceFunctions(ns, Tail(funcs))

\* PrintNamespace that leaves the description out
PrintNamespace_NoDesc(ns, desc) == <<Line("ns", ns, <<>>, ""), Blank>>

\* utils.py:90-95 for one namespace
PrintNamespace(ns, desc) ==
    <<Line("ns", ns, <<>>, "")>>
    \o (IF desc # "" THEN <<Line("ns_doc", ns, <<>>, desc)>> ELSE <<>>)
    \o <<Blank>>

\* utils.py:88-95: the listing of a bare ls
RECURSIVE PrintNamespaces(_, _)
PrintNamespaces(names, docs) ==
    IF Len(names) = 0 THEN <<>>
    ELSE PrintNamespace(Head(names), DocOf(docs, Head(names)))
         \o PrintNamespaces(Tail(names), docs)

PrintListing(reg, docs) ==
    <<Line("hint", <<>>, <<>>, "Run: 'ls ls <namespace>' to see functions information."),
      Line("listing_head", <<>>, <<>>, "Available namespaces:"), Blank>>
    \o PrintNamespaces(NamespaceNames(reg), docs)

\* utils.py:83-86: ls <namespace>
PrintLsNamespace(reg, docs, target) ==
    <<Line("ns_head", target, <<>>, DocOf(docs, target)), Blank>>
    \o PrintNamespaceFunctions(target, FuncsOf(reg, target))

\* utils.py:73: cmd = sys.argv[1] if len(sys.argv) > 1 else "ls"
Cmd(av) == IF Len(av) > 0 THEN av[1] ELSE <<"ls">>

\* utils.py:77: target = sys.argv[2] if len(sys.argv) > 2 else ""
LsTarget(av) == IF Len(av) > 1 THEN av[2] ELSE <<>>

\* utils.py:100: func_args = sys.argv[2:]
FuncArgs(av) == IF Len(av) > 1 THEN SubSeq(av, 2, Len(av)) ELSE <<>>

\* utils.py:107: namespace, func_name = qualified_name.split("__", 1)
Namespace(av) == SplitSep(Cmd(av))[1]
FuncName(av) == SplitSep(Cmd(av))[2]

\* the command passed both lookups of utils.py:109-117
Resolved(reg, av) ==
    /\ Cmd(av) # <<"ls">>
    /\ ContainsSep(Cmd(av))
    /\ HasNamespace(reg, Namespace(av))
    /\ HasFunc(FuncsOf(reg, Namespace(av)), FuncName(av))

\* utils.py:119: func = namespaces[namespace][func_name]
ResolvedFunc(reg, av) == FuncOf(FuncsOf(reg, Namespace(av)), FuncName(av))


(* ------------------------------------------------------------------ *)
(* Actions of the CLI (utils.py main)                                 *)
(* ------------------------------------------------------------------ *)

\* importlib.import_module: a module already imported is taken from
\* sys.modules, another one is executed and added to it
import_module(modules, stem) ==
    IF stem \in Range(modules) THEN modules ELSE Append(modules, stem)

\* CliDiscoverStep that scans a module only when the import executes it: a
\* module taken from sys.modules contributes nothing
CliDiscoverStep_SkipCached ==
    /\ prog \in {"cli", "direct"} /\ pc = "discover" /\ idx <= Len(utils_dir)
    /\ Len(builds) < MaxBuilds
    /\ IsSkippedFile(utils_dir[idx]) \/ ~ImportFails(utils_dir[idx])
    /\ LET ns == utils_dir[idx]
           funcs == DiscoveredFuncs(ns)
       IN IF IsSkippedFile(ns)
          THEN UNCHANGED <<namespaces, ns_docs, sys_modules>>
          ELSE /\ sys_modules' = import_module(sys_modules, ns)
               /\ IF Len(funcs) = 0 \/ ns \in Range(sys_modules)
                  THEN UNCHANGED <<namespaces, ns_docs>>
                  ELSE /\ namespaces' = Append(namespaces, [ns |-> ns, funcs |-> funcs])
                       /\ ns_docs' = Append(ns_docs,
                                            [ns |-> ns, doc |-> FirstLine(ModuleDoc(ns))])
    /\ idx' = idx + 1
    /\ UNCHANGED <<prog, utils_dir, request, response, written, builds, pc, registered, tools, argv, typed_args,
                   env, calls, stdout, stderr, exitCode>>

\* utils.py:30-45: one iteration of the scan of _discover_functions, for a
\* file that is skipped or whose module imports
CliDiscoverStep ==
    /\ prog \in {"cli", "direct"} /\ pc = "discover" /\ idx <= Len(utils_dir)
    /\ Len(builds) < MaxBuilds
    /\ IsSkippedFile(utils_dir[idx]) \/ ~ImportFails(utils_dir[idx])
    /\ LET ns == utils_dir[idx]
           funcs == DiscoveredFuncs(ns)
       IN IF IsSkippedFile(ns)
          THEN UNCHANGED <<namespaces, ns_docs, sys_modules>>
          ELSE /\ sys_modules' = import_module(sys_modules, ns)
               /\ IF Len(funcs) = 0
                  THEN UNCHANGED <<namespaces, ns_docs>>
                  ELSE /\ namespaces' = Append(namespaces, [ns |-> ns, funcs |-> funcs])
                       /\ ns_docs' = Append(ns_docs,
                                            [ns |-> ns, doc |-> FirstLine(ModuleDoc(ns))])
    /\ idx' = idx + 1
    /\ UNCHANGED <<prog, utils_dir, request, response, written, builds, pc, registered, tools, argv, typed_args,
                   env, calls, stdout, stderr, exitCode>>

\* ImportFail that goes on with the next file when a module cannot be imported
ImportFail_Skips ==
    /\ pc = "discover" /\ idx <= Len(utils_dir) /\ Len(builds) < MaxBuilds
    /\ ~IsSkippedFile(utils_dir[idx]) /\ ImportFails(utils_dir[idx])
    /\ idx' = idx + 1
    /\ UNCHANGED <<prog, utils_dir, request, response, written, sys_modules, builds, pc, namespaces, ns_docs,
                   registered, tools, argv, typed_args, env, calls, stdout, stderr,
                   exitCode>>

\* utils.py:36, mcp_server.py:51: import_module raises.  Nothing catches the
\* exception: it leaves _discover_functions, whose result and docs are lost
\* with its frame, then main or the module body of mcp_server.py, and the
\* process ends with a traceback and status 1
ImportFail ==
    /\ pc = "discover" /\ idx <= Len(utils_dir) /\ Len(builds) < MaxBuilds
    /\ ~IsSkippedFile(utils_dir[idx]) /\ ImportFails(utils_dir[idx])
    /\ namespaces' = <<>>
    /\ ns_docs' = <<>>
    /\ stderr' = Append(stderr, [exc |-> "ImportError", names |-> <<>>])
    /\ exitCode' = 1
    /\ pc' = "exited"
    /\ UNCHANGED <<prog, utils_dir, request, response, written, sys_modules, builds, idx, registered, tools,
                   argv, typed_args, env, calls, stdout>>

\* utils.py:47: return result, docs, to a caller that builds the registry
\* again
DirectReturn ==
    /\ prog = "direct" /\ pc = "discover" /\ idx > Len(utils_dir)
    /\ Len(builds) < MaxBuilds
    /\ builds' = Append(builds, [namespaces |-> namespaces, ns_docs |-> ns_docs])
    /\ namespaces' = <<>>
    /\ ns_docs' = <<>>
    /\ idx' = 1
    /\ UNCHANGED <<prog, utils_dir, request, response, written, sys_modules, pc, registered, tools, argv,
                   typed_args, env, calls, stdout, stderr, exitCode>>

\* utils.py:71-73: the registry is built, main reads the command line
CliReadArgv ==
    /\ prog = "cli" /\ pc = "discover" /\ idx > Len(utils_dir)
    /\ \E av \in Argvs : argv' = av
    /\ pc' = "main"
    /\ UNCHANGED <<prog, utils_dir, request, response, written, sys_modules, builds, idx, namespaces, ns_docs, registered, tools, typed_args,
                   env, calls, stdout, stderr, exitCode>>

\* sys.exit(code) after printing lines
Exit(lines, code) ==
    /\ stdout' = stdout \o lines
    /\ exitCode' = code
    /\ pc' = "exited"

\* an uncaught exception: the traceback, with the exception's message, goes
\* to stderr and the status is 1
CrashNaming(exc, names) ==
    /\ stderr' = Append(stderr, [exc |-> exc, names |-> names])
    /\ exitCode' = 1
    /\ pc' = "exited"
    /\ UNCHANGED stdout

Crash(exc) ==
    /\ stderr' = Append(stderr, [exc |-> exc, names |-> <<>>])
    /\ exitCode' = 1
    /\ pc' = "exited"
    /\ UNCHANGED stdout

\* utils.py:76-96: the ls command
CliLs ==
    /\ prog = "cli" /\ pc = "main" /\ Cmd(argv) = <<"ls">>
    /\ LET target == LsTarget(argv) IN
       IF target # <<>>
       THEN IF ~HasNamespace(namespaces, target)
            THEN Exit(<<Line("error", target, <<>>, "Error: Unknown namespace"),
                        Line("available", <<>>, NamespaceNames(namespaces), "Available: ")>>,
                      1)
            ELSE Exit(PrintLsNamespace(namespaces, ns_docs, target), 0)
       ELSE Exit(PrintListing(namespaces, ns_docs), 0)
    /\ UNCHANGED <<prog, utils_dir, request, response, written, sys_modules, builds, idx, namespaces, ns_docs, registered, tools, argv,
                   typed_args, env, calls, stderr>>

\* CliNoSeparator that reports the error and ends with status 0
CliNoSeparator_ExitZero ==
    /\ prog = "cli" /\ pc = "main" /\ Cmd(argv) # <<"ls">>
    /\ ~ContainsSep(Cmd(argv))
    /\ Exit(<<Line("error", Cmd(argv), <<>>,
                   "Error: Use <namespace__function> format, e.g. datetime__current"),
              Line("available", <<>>, NamespaceNames(namespaces),
                   "Available namespaces: ")>>, 0)
    /\ UNCHANGED <<prog, utils_dir, request, response, written, sys_modules, builds, idx, namespaces, ns_docs, registered, tools, argv,
                   typed_args, env, calls, stderr>>

\* utils.py:102-105: no "__" in the command
CliNoSeparator ==
    /\ prog = "cli" /\ pc = "main" /\ Cmd(argv) # <<"ls">>
    /\ ~ContainsSep(Cmd(argv))
    /\ Exit(<<Line("error", Cmd(argv), <<>>,
                   "Error: Use <namespace__function> format, e.g. datetime__current"),
              Line("available", <<>>, NamespaceNames(namespaces),
                   "Available namespaces: ")>>, 1)
    /\ UNCHANGED <<prog, utils_dir, request, response, written, sys_modules, builds, idx, namespaces, ns_docs, registered, tools, argv,
                   typed_args, env, calls, stderr>>

\* utils.py:109-112: the namespace is not in the registry
CliUnknownNamespace ==
    /\ prog = "cli" /\ pc = "main" /\ Cmd(argv) # <<"ls">>
    /\ ContainsSep(Cmd(argv))
    /\ ~HasNamespace(namespaces, Namespace(argv))
    /\ Exit(<<Line("error", Namespace(argv), <<>>, "Error: Unknown namespace"),
              Line("available", <<>>, NamespaceNames(namespaces),
                   "Available namespaces: ")>>, 1)
    /\ UNCHANGED <<prog, utils_dir, request, response, written, sys_modules, builds, idx, namespaces, ns_docs, registered, tools, argv,
                   typed_args, env, calls, stderr>>

\* CliUnknownFunction that lists the namespaces in place of the functions
CliUnknownFunction_ListsNamespaces ==
    /\ prog = "cli" /\ pc = "main" /\ Cmd(argv) # <<"ls">>
    /\ ContainsSep(Cmd(argv))
    /\ HasNamespace(namespaces, Namespace(argv))
    /\ ~HasFunc(FuncsOf(namespaces, Namespace(argv)), FuncName(argv))
    /\ Exit(<<Line("error", FuncName(argv), <<>>, "Error: Unknown function"),
              Line("available", <<>>, NamespaceNames(namespaces),
                   "Available functions: ")>>, 1)
    /\ UNCHANGED <<prog, utils_dir, request, response, written, sys_modules, builds, idx, namespaces, ns_docs, registered, tools, argv,
                   typed_args, env, calls, stderr>>

\* utils.py:114-117: the function is not in the namespace
CliUnknownFunction ==
    /\ prog = "cli" /\ pc = "main" /\ Cmd(argv) # <<"ls">>
    /\ ContainsSep(Cmd(argv))
    /\ HasNamespace(namespaces, Namespace(argv))
    /\ ~HasFunc(FuncsOf(namespaces, Namespace(argv)), FuncName(argv))
    /\ Exit(<<Line("error", FuncName(argv), <<>>, "Error: Unknown function"),
              Line("available", <<>>,
                   FuncNames(FuncsOf(namespaces, Namespace(argv))),
                   "Available functions: ")>>, 1)
    /\ UNCHANGED <<prog, utils_dir, request, response, written, sys_modules, builds, idx, namespaces, ns_docs, registered, tools, argv,
                   typed_args, env, calls, stderr>>

\* utils.py:119-131: the arguments are converted; a failed int() or float()
\* is an uncaught ValueError
CliCoerce ==
    /\ prog = "cli" /\ pc = "main" /\ Resolved(namespaces, argv)
    /\ LET params == ResolvedFunc(namespaces, argv).params IN
       IF AnyCoerceFails(FuncArgs(argv), params)
       THEN Crash("ValueError") /\ UNCHANGED typed_args
       ELSE /\ typed_args' = TypedArgs(FuncArgs(argv), params)
            /\ pc' = "call"
            /\ UNCHANGED <<stdout, stderr, exitCode>>
    /\ UNCHANGED <<prog, utils_dir, request, response, written, sys_modules, builds, idx, namespaces, ns_docs, registered, tools, argv, env, calls>>

\* utils.py:133: func(*typed_args) does not bind, an uncaught TypeError
CliBindFail ==
    /\ prog = "cli" /\ pc = "call"
    /\ BindFails(typed_args, ResolvedFunc(namespaces, argv).params)
    /\ Crash("TypeError")
    /\ UNCHANGED <<prog, utils_dir, request, response, written, sys_modules, builds, idx, namespaces, ns_docs, registered, tools, argv,
                   typed_args, env, calls>>

\* Finish that swallows the exception of the operation: an empty result
\* and a normal end
Finish_Swallowed(result) ==
    IF result.kind = "raise" \/ ~result.jsonable
    THEN Exit(<<[Line("result", <<>>, <<>>, "") EXCEPT !.json = "object"]>>, 0)
         /\ UNCHANGED stderr
    ELSE /\ Exit(<<[Line("result", <<>>, <<>>, "")
                       EXCEPT !.json = JsonType(result), !.keys = result.keys,
                              !.vals = result.vals]>>, 0)
         /\ UNCHANGED stderr

\* utils.py:133-134: result = func(*typed_args); print(json.dumps(result)).
\* An exception of the operation, or of json.dumps, is not caught; after the
\* print main returns and the status is 0
Finish(result) ==
    IF result.kind = "raise" THEN CrashNaming(result.exc, result.names)
    ELSE IF ~result.jsonable THEN Crash("TypeError")
    ELSE /\ Exit(<<[Line("result", <<>>, <<>>, "")
                       EXCEPT !.json = JsonType(result), !.keys = result.keys,
                              !.vals = result.vals]>>, 0)
         /\ UNCHANGED stderr

\* utils.py:133-134: the operation is entered with the coerced arguments
CliInvoke ==
    /\ prog = "cli" /\ pc = "call"
    /\ ~BindFails(typed_args, ResolvedFunc(namespaces, argv).params)
    /\ \E e \in EnvsFor(ResolvedFunc(namespaces, argv)) :
         LET func == ResolvedFunc(namespaces, argv)
         IN /\ env' = e
            /\ calls' = Append(calls, [ns |-> Namespace(argv), name |-> func.name,
                                       module |-> func.module, args |-> typed_args])
            /\ Finish(CallOperation(func, typed_args, e))
    /\ UNCHANGED <<prog, utils_dir, request, response, written, sys_modules, builds, idx, namespaces, ns_docs, registered, tools, argv, typed_args>>

(* ------------------------------------------------------------------ *)
(* Actions of the tool server (mcp_server.py)                         *)
(* ------------------------------------------------------------------ *)

\* mcp_server.py:31: the signature of def wrapper(*args, **kwargs)
VarArgs == <<P("args", "*", TRUE), P("kwargs", "**", TRUE)>>

\* functools.wraps(func)(wrapper): __module__, __name__ and __doc__ of func
\* are copied to wrapper, which keeps its own code and gets __wrapped__
wraps(func, wrapper) ==
    [wrapper EXCEPT !.name = func.name, !.doc = func.doc, !.module = func.module,
                    !.wrapped = func]

\* _make_json_wrapper without functools.wraps: the wrapper keeps its own name
_make_json_wrapper_NoWraps(func) ==
    [name |-> <<"wrapper">>, doc |-> <<>>, module |-> U(<<"mcp", "server">>),
     params |-> func.params, wrapped |-> func]

\* mcp_server.py:25-39 _make_json_wrapper: the wrapper object returned; params
\* is what inspect.signature(wrapper) reports, set at line 38
_make_json_wrapper(func) ==
    [wraps(func, [name |-> <<"wrapper">>, doc |-> <<>>,
                  module |-> U(<<"mcp", "server">>), params |-> VarArgs,
                  wrapped |-> func])
        EXCEPT !.params = func.params]

\* mcp_server.py:32-35: what wrapper returns or raises for a result of func;
\* json.dumps(result, indent=2) of a dict is a str, the text of an object with
\* the keys of the dict
WrapperResult(result) ==
    IF result.kind = "raise" THEN result
    ELSE IF result.kind = "dict"
         THEN IF result.jsonable THEN [result EXCEPT !.kind = "str"] ELSE Raise("TypeError")
         ELSE result

\* a registration, mcp.tool()(wrapper) with no argument: the tool gets the
\* name, the parameters and the docstring of the function it is given
Tool(stem, obj) ==
    LET w == _make_json_wrapper(obj) IN
    [name |-> ToolName(stem, w), ns |-> stem, func |-> obj.name,
     params |-> w.params, description |-> w.doc, wrapped |-> w.wrapped]

\* the arguments a tool is called with: values of the declared types for
\* the first parameters, the required ones at least
ToolArgs(params) ==
    {TypedArgs(a, params) :
        a \in {b \in ArgSeqs(MaxArgs) :
                  /\ Len(b) <= Len(params)
                  /\ ~AnyCoerceFails(b, params)
                  /\ ~BindFails(TypedArgs(b, params), params)}}

\* the tool table after mcp.tool()(wrapper): FastMCP keys its tools by name,
\* and by default a tool registered under a name in use replaces the other
AddTool(table, tool) == {t \in table : t.name # tool.name} \cup {tool}

RECURSIVE AddTools(_, _)
AddTools(table, ts) ==
    IF Len(ts) = 0 THEN table ELSE AddTools(AddTool(table, Head(ts)), Tail(ts))

\* mcp_server.py:46-55: one iteration of the scan of _discover_and_register
ServerRegisterStep ==
    /\ prog = "server" /\ pc = "discover" /\ idx <= Len(utils_dir)
    /\ IsSkippedFile(utils_dir[idx]) \/ ~ImportFails(utils_dir[idx])
    /\ LET stem == utils_dir[idx]
           objs == DiscoveredTools(stem)
           new == [i \in 1..Len(objs) |-> Tool(stem, objs[i])]
       IN IF IsSkippedFile(stem)
          THEN UNCHANGED <<registered, tools, sys_modules>>
          ELSE /\ sys_modules' = import_module(sys_modules, stem)
               /\ registered' = registered \o new
               /\ tools' = AddTools(tools, new)
    /\ idx' = idx + 1
    /\ UNCHANGED <<prog, utils_dir, request, response, written, builds, pc, namespaces, ns_docs, argv, typed_args, env, calls,
                   stdout, stderr, exitCode>>

\* mcp_server.py:58-79: registration is over, the server runs
ServerRun ==
    /\ prog = "server" /\ pc = "discover" /\ idx > Len(utils_dir)
    /\ pc' = "serving"
    /\ UNCHANGED <<prog, utils_dir, request, response, written, sys_modules, builds, idx, namespaces, ns_docs, registered, tools, argv,
                   typed_args, env, calls, stdout, stderr, exitCode>>

\* mcp_server.py:31-35: a tool is called; wrapper calls func with the
\* arguments it received and returns, or the exception leaves it
ServerCallTool ==
    /\ prog = "server" /\ pc = "serving"
    /\ \E t \in tools : \E a \in ToolArgs(t.params) : \E e \in EnvsFor(t.wrapped) :
         /\ request' = [tool |-> t.name, args |-> a]
         /\ env' = e
         /\ calls' = <<[ns |-> t.ns, name |-> t.wrapped.name,
                         module |-> t.wrapped.module, args |-> a]>>
         /\ response' = WrapperResult(CallOperation(t.wrapped, a, e))
    /\ pc' = "responding"
    /\ UNCHANGED <<prog, utils_dir, written, sys_modules, builds, idx, namespaces, ns_docs,
                   registered, tools, argv, typed_args, stdout, stderr, exitCode>>

\* the answer is sent; the server waits for the next call
ServerRespond ==
    /\ prog = "server" /\ pc = "responding"
    /\ pc' = "serving"
    /\ request' = NoRequest
    /\ response' = NoResponse
    /\ calls' = <<>>
    /\ env' = NoEnv
    /\ UNCHANGED <<prog, utils_dir, written, sys_modules, builds, idx, namespaces, ns_docs,
                   registered, tools, argv, typed_args, stdout, stderr, exitCode>>

\* _ask_user that asks for every required field, missing or not
RECURSIVE _ask_user_AskAll(_, _, _, _)
_ask_user_AskAll(data, i, addresses, answers) ==
    IF i > Len(_REQUIRED_FIELDS) THEN [data |-> data, asked |-> <<>>, eof |-> FALSE]
    ELSE LET field == _REQUIRED_FIELDS[i] IN
         IF answers = <<>> THEN [data |-> data, asked |-> <<field>>, eof |-> TRUE]
         ELSE LET val == StripStr(Head(answers))
                  rest == Tail(answers)
                  r == IF field = "addresss"
                       THEN IF val = ""
                            THEN IF addresses = <<>>
                                 THEN _ask_user_AskAll(data, i, <<>>, rest)
                                 ELSE _ask_user_AskAll(
                                          [data EXCEPT ![field] = ListValue(addresses)],
                                          i + 1, <<>>, rest)
                            ELSE _ask_user_AskAll(data, i, Append(addresses, val), rest)
                       ELSE IF field = "birthday" /\ fromisoformat(val) = <<>>
                            THEN _ask_user_AskAll(data, i, <<>>, rest)
                            ELSE _ask_user_AskAll([data EXCEPT ![field] = StrValue(val)],
                                                  i + 1, <<>>, rest)
              IN [r EXCEPT !.asked = <<field>> \o r.asked]

\* user_information.py:118-163 _ask_user, from the i-th required field on:
\* data is the working copy of the existing data, addresses the addresses
\* typed so far, answers the lines input() will return.  The result holds the
\* data, the fields input() prompted for, and whether input() ran out of
\* lines (EOFError)
RECURSIVE _ask_user(_, _, _, _)
_ask_user(data, i, addresses, answers) ==
    IF i > Len(_REQUIRED_FIELDS) THEN [data |-> data, asked |-> <<>>, eof |-> FALSE]
    ELSE LET field == _REQUIRED_FIELDS[i] IN
         IF ~_is_missing(field, data[field]) THEN _ask_user(data, i + 1, <<>>, answers)
         ELSE IF answers = <<>> THEN [data |-> data, asked |-> <<field>>, eof |-> TRUE]
         ELSE LET val == StripStr(Head(answers))
                  rest == Tail(answers)
                  r == IF field = "addresss"
                       THEN IF val = ""
                            THEN IF addresses = <<>>
                                 THEN _ask_user(data, i, <<>>, rest)
                                 ELSE _ask_user([data EXCEPT ![field] = ListValue(addresses)],
                                                i + 1, <<>>, rest)
                            ELSE _ask_user(data, i, Append(addresses, val), rest)
                       ELSE IF field = "birthday" /\ fromisoformat(val) = <<>>
                            THEN _ask_user(data, i, <<>>, rest)
                            ELSE _ask_user([data EXCEPT ![field] = StrValue(val)],
                                           i + 1, <<>>, rest)
              IN [r EXCEPT !.asked = <<field>> \o r.asked]

\* user_information.py:166-196 _ensure_user_info, run to its end: the file is
\* read, nothing is asked or written when no required field is missing;
\* otherwise _ask_user fills a copy of the data from the lines the user types
\* and the copy is written.  When the input ends before the last answer,
\* input() raises EOFError and nothing is written
SetupRun ==
    /\ prog = "setup" /\ pc = "setup"
    /\ \E cfg \in ProfileStates :
       \E answers \in UNION {[1..n -> {" ", " a@b.c ", "2001-02-03"}] : n \in 0..MaxAnswers} :
          LET existing == IF cfg.exists THEN cfg.data ELSE EmptyProfile
              missing == MissingFields(existing)
              r == _ask_user(existing, 1, <<>>, answers)
              prompts == [j \in 1..Len(r.asked) |-> Line("prompt", <<>>, <<>>, r.asked[j])]
          IN /\ env' = [NoEnv EXCEPT !.cfg = cfg]
             /\ IF missing = <<>>
                THEN /\ Exit(<<Line("complete", <<>>, <<>>,
                                    "already has all required fields.")>>, 0)
                     /\ UNCHANGED <<written, stderr>>
                ELSE IF r.eof
                THEN /\ stdout' = stdout \o <<Line("setup", <<>>, missing,
                                                   "Setting up user.data.json...")>>
                                        \o prompts
                     /\ stderr' = Append(stderr, [exc |-> "EOFError", names |-> <<>>])
                     /\ exitCode' = 1
                     /\ pc' = "exited"
                     /\ UNCHANGED written
                ELSE /\ written' = Append(written, r.data)
                     /\ Exit(<<Line("setup", <<>>, missing, "Setting up user.data.json...")>>
                             \o prompts \o <<Line("saved", <<>>, <<>>, "Saved to ")>>, 0)
                     /\ UNCHANGED stderr
    /\ UNCHANGED <<prog, utils_dir, request, response, sys_modules, builds, idx, namespaces,
                   ns_docs, registered, tools, argv, typed_args, calls>>

Next ==
    \/ CliDiscoverStep
    \/ ImportFail
    \/ DirectReturn
    \/ CliReadArgv
    \/ CliLs
    \/ CliNoSeparator
    \/ CliUnknownNamespace
    \/ CliUnknownFunction
    \/ CliCoerce
    \/ CliBindFail
    \/ CliInvoke
    \/ ServerRegisterStep
    \/ ServerRun
    \/ ServerCallTool
    \/ ServerRespond
    \/ SetupRun

Spec == Init /\ [][Next]_vars


(* ------------------------------------------------------------------ *)
(* Properties                                                         *)
(* ------------------------------------------------------------------ *)

\* the modules already imported and scanned
Scanned == Range(sys_modules)

\* the functions a module holds, whatever their name and origin
FunctionsIn(stem) == {o \in Range(ModuleMembers(stem)) : o.kind = "function"}

\* the operation names the CLI registry holds for a namespace
CliRegistered(stem) ==
    IF \E i \in 1..Len(namespaces) : namespaces[i].ns = stem
    THEN {f.name : f \in Range(FuncsOf(namespaces, stem))}
    ELSE {}

\* the function names of a module handed to mcp.tool()
ServerRegistered(stem) ==
    {registered[i].func : i \in {j \in 1..Len(registered) : registered[j].ns = stem}}

\* the lines of kind k printed so far
LinesOf(k) == {stdout[i] : i \in {j \in 1..Len(stdout) : stdout[j].kind = k}}

\* a result was printed
ResultPrinted == LinesOf("result") # {}

\* output of the ls command
ListingKinds == {"hint", "listing_head", "ns", "ns_doc", "ns_head", "func", "func_doc"}
ListingPrinted == \E i \in 1..Len(stdout) : stdout[i].kind \in ListingKinds

\* the CLI run is over
CliExited == prog = "cli" /\ pc = "exited"

\* a module could not be imported: the scan was abandoned
ImportFailed == \E i \in 1..Len(stderr) : stderr[i].exc = "ImportError"

\* the CLI run, started with no arguments, is over and main had its registry
NoArgRunOver == CliExited /\ argv = <<>> /\ ~ImportFailed

\* C1: a function of a scanned module is registered exactly when its name has
\* no leading "_" and its __module__ is the scanned module, in the CLI
\* registry and in the tool server's registrations alike.
C1_RegisteredIffPublicAndLocal ==
    \A stem \in Scanned : \A o \in FunctionsIn(stem) :
        LET meets == o.name[1] # "_" /\ o.module = <<"utils", ".">> \o stem IN
        /\ (prog = "cli" /\ ~ImportFailed) =>
              ((o.name \in CliRegistered(stem)) <=> meets)
        /\ prog = "server" => ((o.name \in ServerRegistered(stem)) <=> meets)

\* C1 witness: the CLI scan is over; text holds words_count and neither the
\* imported lru_cache nor the private _stem_word.
C1_Witness ==
    /\ prog = "cli" /\ idx > Len(utils_dir)
    /\ U(<<"words", "count">>) \in CliRegistered(TextStem)
    /\ U(<<"lru", "cache">>) \notin CliRegistered(TextStem)
    /\ Priv(<<"stem", "word">>) \notin CliRegistered(TextStem)

\* C2: every tool of the tool server is named namespace + "__" + operation.
C2_ToolNamesQualified ==
    \A t \in tools : t.name = t.ns \o <<"_", "_">> \o t.func

\* C3: once registration is over the tool table holds one tool per
\* registered operation: as many tools as operations, and each operation
\* still has its tool.
C3_OneToolPerOperation ==
    (prog = "server" /\ pc = "serving") =>
        /\ Cardinality(tools) = Len(registered)
        /\ \A i \in 1..Len(registered) :
              \E t \in tools : t.ns = registered[i].ns /\ t.func = registered[i].func

\* the parameters of the operation the command line resolved to
ResolvedParams == ResolvedFunc(namespaces, argv).params

\* more arguments than parameters, or fewer than the parameters without default
ArityMismatch ==
    \/ Len(FuncArgs(argv)) > Len(ResolvedParams)
    \/ \E i \in 1..Len(ResolvedParams) :
          ~ResolvedParams[i].hasDefault /\ i > Len(FuncArgs(argv))

\* C4: a call of a resolved operation with too many or too few arguments
\* ends with a non-zero status and prints no result.
C4_ArityMismatchFails ==
    (CliExited /\ Resolved(namespaces, argv) /\ ArityMismatch) =>
        (exitCode # 0 /\ ~ResultPrinted)

\* every registered namespace has its line in the listing, with its description
NamespacesListed ==
    \A i \in 1..Len(namespaces) :
        LET ns == namespaces[i].ns
            desc == FirstLine(ModuleDoc(ns))
        IN /\ \E l \in LinesOf("ns") : l.name = ns
           /\ desc # "" => \E l \in LinesOf("ns_doc") : l.name = ns /\ l.text = desc

\* every operation of the registered namespaces in nss has its line with its
\* qualified name and signature, and its description
OperationsListed(nss) ==
    \A i \in 1..Len(namespaces) : namespaces[i].ns \in nss =>
        \A f \in Range(namespaces[i].funcs) :
            LET q == namespaces[i].ns \o <<"_", "_">> \o f.name IN
            /\ \E l \in LinesOf("func") : l.name = q /\ l.sig = f.params
            /\ FirstLine(f.doc) # "" =>
                  \E l \in LinesOf("func_doc") : l.name = q /\ l.text = FirstLine(f.doc)

\* C5 as stated: a run with no arguments lists every namespace and every
\* operation with signature and description, and exits 0.
C5_NoArgListsOperations ==
    NoArgRunOver =>
        /\ exitCode = 0
        /\ NamespacesListed
        /\ OperationsListed({namespaces[i].ns : i \in 1..Len(namespaces)})

\* C5 amended: a run with no arguments lists every registered namespace with
\* its description, no operation, and exits 0; ls <namespace> for a registered
\* namespace lists every operation of that namespace with qualified name,
\* signature and description, and exits 0.
C5_ListingByLevel ==
    /\ NoArgRunOver =>
          (exitCode = 0 /\ NamespacesListed /\ LinesOf("func") = {})
    /\ (CliExited /\ Len(argv) = 2 /\ argv[1] = <<"ls">>
        /\ argv[2] \in {namespaces[i].ns : i \in 1..Len(namespaces)}) =>
          (exitCode = 0 /\ OperationsListed({argv[2]}))

\* C5 witness: the run with no arguments ended and printed namespace lines.
C5_Witness ==
    CliExited /\ argv = <<>> /\ exitCode = 0 /\ LinesOf("ns") # {}

\* the value of each numeric argument string of the model, as a fraction
LiteralValue(arg) ==
    CASE arg = <<"1">> -> <<1, 1>>
      [] arg = <<"0">> -> <<0, 1>>
      [] arg = <<"-", "1">> -> <<-1, 1>>
      [] arg = <<"1", ".", "5">> -> <<3, 2>>

\* the argument strings int() and float() reject
NotInt == {<<"x">>, <<"math">>, <<"1", ".", "5">>}
NotFloat == {<<"x">>, <<"math">>}

\* a conversion of the command line fails
SomeParseFails ==
    \E i \in 1..Len(ResolvedParams) : i <= Len(FuncArgs(argv)) /\
        \/ ResolvedParams[i].hint = "int" /\ FuncArgs(argv)[i] \in NotInt
        \/ ResolvedParams[i].hint = "float" /\ FuncArgs(argv)[i] \in NotFloat

\* C6: the i-th argument reaches the operation as the int it spells when the
\* i-th hint is int, as the float it spells when it is float, and as the same
\* string otherwise; when a conversion fails the run ends with a non-zero
\* status, no operation entered and no result printed.
C6_CoercionByHint ==
    /\ (prog = "cli" /\ pc = "call") =>
          \A i \in 1..Len(typed_args) :
              LET hint == ResolvedParams[i].hint
                  arg == FuncArgs(argv)[i]
                  v == typed_args[i]
              IN IF hint \in {"int", "float"}
                 THEN /\ v.t = hint
                      /\ v.den > 0
                      /\ v.num * LiteralValue(arg)[2] = LiteralValue(arg)[1] * v.den
                      /\ hint = "int" => v.den = 1
                 ELSE v.t = "str" /\ v.s = arg
    /\ (CliExited /\ Resolved(namespaces, argv) /\ SomeParseFails) =>
          (exitCode # 0 /\ calls = <<>> /\ ~ResultPrinted)

\* C6 witness: round_number was given "1.5" and "1": a float and an int.
C6_Witness ==
    /\ prog = "cli" /\ pc = "call"
    /\ argv = <<QualifiedName(MathStem, U(<<"round", "number">>)), <<"1", ".", "5">>, <<"1">>>>
    /\ typed_args[1].t = "float" /\ typed_args[2].t = "int"

\* the first word of the command line has no "__"
NoSeparator == \A i \in 1..(Len(argv[1]) - 1) : ~(argv[1][i] = "_" /\ argv[1][i + 1] = "_")

\* a usage error: an error message, a non-zero status, no operation entered,
\* no result and no listing
UsageError ==
    /\ LinesOf("error") # {}
    /\ exitCode # 0
    /\ calls = <<>>
    /\ ~ResultPrinted
    /\ ~ListingPrinted

\* C7 as stated: every command without "__" ends in a usage error.
C7_NoSeparatorIsError ==
    (CliExited /\ Len(argv) > 0 /\ NoSeparator) => UsageError

\* C7 amended: every command other than ls without "__" ends in a usage error.
C7_NoSeparatorExceptLsIsError ==
    (CliExited /\ Len(argv) > 0 /\ argv[1] # <<"ls">> /\ NoSeparator) => UsageError

\* C7 witness: the command "math" ended with the error message.
C7_Witness ==
    CliExited /\ Len(argv) > 0 /\ argv[1] = <<"math">> /\ LinesOf("error") # {}

\* the namespaces of the registry
RegisteredNamespaces == {namespaces[i].ns : i \in 1..Len(namespaces)}

\* the names some "Available ..." line of the output lists
Listed(names) == \E l \in LinesOf("available") : Range(l.items) = names

\* C8: a command whose namespace is not registered ends with an error that
\* lists all registered namespaces, a command with a registered namespace
\* and an unknown operation with an error that lists all operations of that
\* namespace; both with a non-zero status and no operation entered.
C8_UnknownNamesListAlternatives ==
    (CliExited /\ Len(argv) > 0 /\ argv[1] # <<"ls">> /\ ~NoSeparator) =>
        LET ns == SplitSep(argv[1])[1]
            op == SplitSep(argv[1])[2]
        IN /\ ns \notin RegisteredNamespaces =>
                /\ LinesOf("error") # {} /\ Listed(RegisteredNamespaces)
                /\ exitCode # 0 /\ calls = <<>>
           /\ (ns \in RegisteredNamespaces /\ op \notin CliRegistered(ns)) =>
                /\ LinesOf("error") # {} /\ Listed(CliRegistered(ns))
                /\ exitCode # 0 /\ calls = <<>>

\* C8 witness: math__nosuch ended with the list of the functions of math.
C8_Witness ==
    /\ CliExited /\ Len(argv) > 0
    /\ argv[1] = QualifiedName(MathStem, <<"nosuch">>)
    /\ Listed(CliRegistered(MathStem))

\* C9: a run that entered an operation and ended with status 0 printed a
\* JSON object.
C9_ResultIsObject ==
    (CliExited /\ calls # <<>> /\ exitCode = 0) =>
        (ResultPrinted /\ \A l \in LinesOf("result") : l.json = "object")

\* the operation entered raised in the environment it met
OperationRaised ==
    /\ calls # <<>>
    /\ CallOperation(ResolvedFunc(namespaces, argv), calls[1].args, env).kind = "raise"

\* C10: when the operation entered raises, the run ends with a non-zero
\* status and prints no result.
C10_RaiseIsFatal ==
    (CliExited /\ OperationRaised) => (exitCode # 0 /\ ~ResultPrinted)

\* C10 witness: personal_data met no profile file and the run ended.
C10_Witness ==
    /\ CliExited /\ calls # <<>>
    /\ calls[1].name = U(<<"personal", "data">>)
    /\ ~env.cfg.exists
    /\ exitCode # 0

\* the operation entered is one that performs a network lookup
NetworkCall ==
    /\ calls # <<>>
    /\ \/ calls[1].module = <<"utils", ".", "ip", "_", "address">>
       \/ /\ calls[1].module = <<"utils", ".", "weather">>
          /\ calls[1].name = <<"current", "_", "with", "_", "forecast">>

\* the run printed a JSON object that has an "error" key
ErrorMappingPrinted ==
    \E l \in LinesOf("result") : l.json = "object" /\ "error" \in l.keys

\* C11: when the transport fails, an operation that performs a network lookup
\* returns a mapping with an "error" key: the run prints it, no exception is
\* reported and the run is not aborted.
C11_TransportFailureIsSoft ==
    (CliExited /\ NetworkCall /\ env.net = "fail") =>
        (ErrorMappingPrinted /\ stderr = <<>> /\ exitCode = 0)

\* the i-th argument the operation entered was called with, as a string
ArgString(i) == calls[1].args[i].s

\* the operation entered, by module and name
Entered(stem, name) ==
    calls # <<>> /\ calls[1].module = <<"utils", ".">> \o stem /\ calls[1].name = name

\* the names the operations know, among which none of ArgStrings is
KnownNames ==
    {<<"snowball">>, <<"mistral", "_", "v", "3">>, <<"MISTRAL", "_", "V", "3">>,
     <<"gpt", "2">>, <<" ", "gpt", "2">>, <<"US">>, <<"us">>,
     <<"UTC">>, <<"utc">>, <<"PST">>, <<"pst">>, <<"Pst">>,
     <<"America", "/", "Los", "_", "Angeles">>}

\* the operation entered was given an input outside its domain: a zero
\* divisor, a negative square-root or factorial argument, an inverse sine or
\* cosine argument outside [-1, 1], an unknown algorithm, country or timezone
DomainError ==
    \/ /\ Entered(<<"math">>, <<"divide">>) \/ Entered(<<"math">>, <<"modulo">>)
       /\ calls[1].args[2].num = 0
    \/ /\ Entered(<<"math">>, <<"square", "_", "root">>) \/ Entered(<<"math">>, <<"factorial">>)
       /\ calls[1].args[1].num < 0
    \/ /\ Entered(<<"math">>, <<"asin">>) \/ Entered(<<"math">>, <<"acos">>)
       /\ \/ calls[1].args[1].num > calls[1].args[1].den
          \/ calls[1].args[1].num < 0 - calls[1].args[1].den
    \/ /\ \/ Entered(<<"text">>, <<"word", "_", "stem">>)
          \/ Entered(<<"text">>, <<"nlp", "_", "tokenize">>)
          \/ Entered(<<"text">>, <<"llm", "_", "tokenize">>)
       /\ Len(calls[1].args) >= 2 /\ ArgString(2) \notin KnownNames
    \/ /\ \/ Entered(<<"datetime">>, <<"country", "_", "timezones">>)
          \/ Entered(<<"date", "_", "time">>, <<"get", "_", "timezones">>)
          \/ Entered(<<"datetime">>, <<"current">>)
          \/ Entered(<<"date", "_", "time">>, <<"get", "_", "current", "_", "datetime">>)
       /\ Len(calls[1].args) >= 1 /\ ArgString(1) \notin KnownNames

\* C12: an operation given an input outside its domain returns a mapping with
\* an "error" key and does not raise: the run prints the mapping, reports no
\* exception and ends with status 0.
C12_DomainErrorsAreSoft ==
    (CliExited /\ DomainError) =>
        (ErrorMappingPrinted /\ stderr = <<>> /\ exitCode = 0)

\* the operation entered is a profile request
ProfileRequest ==
    \/ Entered(<<"user", "_", "info">>, <<"personal", "_", "information">>)
    \/ Entered(<<"user", "_", "information">>, <<"personal", "_", "data">>)

\* a required field of the profile file that is absent or empty; addresss is
\* missing unless it is a list with a non-blank entry
FieldMissing(f) ==
    LET v == env.cfg.data[f] IN
    \/ ~env.cfg.exists
    \/ v.k = "none"
    \/ v.k = "str" /\ v.s = ""
    \/ v.k = "list" /\ v.items = <<>>
    \/ f = "addresss" /\ (v.k # "list" \/ \A i \in 1..Len(v.items) : v.items[i] \in {"", " "})

RequiredFields == {"birthday", "email", "phone", "addresss"}

\* C13: a profile request whose configuration file is absent or lacks a
\* required field ends with an exception whose message names every missing
\* field and prints no profile; a profile is printed only when no required
\* field is missing.
C13_ProfileOnlyWhenComplete ==
    (CliExited /\ ProfileRequest) =>
        IF \E f \in RequiredFields : FieldMissing(f)
        THEN /\ exitCode # 0 /\ ~ResultPrinted
             /\ \E i \in 1..Len(stderr) :
                   \A f \in RequiredFields : FieldMissing(f) => f \in Range(stderr[i].names)
        ELSE TRUE

\* the namespaces of a registry, and the operation names of one of them
KeysOf(reg) == {reg[k].ns : k \in 1..Len(reg)}
OpsOf(reg, ns) ==
    UNION {{reg[k].funcs[m].name : m \in 1..Len(reg[k].funcs)} :
              k \in {n \in 1..Len(reg) : reg[n].ns = ns}}

\* C17: the registries two builds over the same directory return have the
\* same namespaces and, for each namespace, the same operation names.
C17_RebuildSameKeys ==
    \A i \in 1..Len(builds) : \A j \in 1..Len(builds) :
        /\ KeysOf(builds[i].namespaces) = KeysOf(builds[j].namespaces)
        /\ \A ns \in KeysOf(builds[i].namespaces) :
              OpsOf(builds[i].namespaces, ns) = OpsOf(builds[j].namespaces, ns)

\* C17 witness: the repository's directory was built twice, math with its add
\* is in the first registry.
C17_Witness ==
    /\ Len(builds) >= 2
    /\ <<"math">> \in KeysOf(builds[1].namespaces)
    /\ <<"add">> \in OpsOf(builds[1].namespaces, <<"math">>)
    /\ Len(utils_dir) = 8

\* the position in the directory of a module that cannot be imported
BrokenAt(k) == k \in 1..Len(utils_dir) /\ utils_dir[k] = <<"text", "_", "broken">>

\* C18: when a module of the directory cannot be imported the scan never goes
\* past it, and once discovery is left the process has ended with a non-zero
\* status: no registry was returned, not even of the modules imported before,
\* nothing was listed or printed, no operation entered, no server running.
C18_ImportFailureIsFatal ==
    \A k \in 1..Len(utils_dir) : BrokenAt(k) =>
        /\ idx <= k
        /\ builds = <<>>
        /\ pc # "discover" =>
              /\ pc = "exited" /\ exitCode # 0 /\ stderr # <<>>
              /\ namespaces = <<>> /\ ns_docs = <<>>
              /\ calls = <<>> /\ stdout = <<>>

\* C18 witness: the CLI ended on the failing import after math was imported.
C18_Witness ==
    /\ prog = "cli" /\ pc = "exited"
    /\ \E k \in 1..Len(utils_dir) : BrokenAt(k)
    /\ <<"math">> \in Range(sys_modules)

\* the files of the directory named with a leading "_"
UnderscoreFiles == {utils_dir[k] : k \in {n \in 1..Len(utils_dir) : utils_dir[n][1] = "_"}}

\* C19: a file named with a leading "_" is never imported and has no
\* namespace and no operation in the CLI registry, in a registry returned to
\* a caller or among the tool registrations.
C19_UnderscoreFilesExcluded ==
    \A stem \in UnderscoreFiles :
        /\ stem \notin Range(sys_modules)
        /\ stem \notin KeysOf(namespaces)
        /\ \A i \in 1..Len(ns_docs) : ns_docs[i].ns # stem
        /\ \A i \in 1..Len(builds) : stem \notin KeysOf(builds[i].namespaces)
        /\ \A i \in 1..Len(registered) : registered[i].ns # stem
        /\ \A t \in tools : t.ns # stem

\* C19 witness: the scan of a directory that holds _helpers.py is over and
\* registered math.
C19_Witness ==
    /\ UnderscoreFiles # {}
    /\ idx > Len(utils_dir)
    /\ prog = "cli" /\ <<"math">> \in KeysOf(namespaces)

\* the file names of the directories in ascending lexicographic order, as
\* sorted() of Python orders them
AscendingNames ==
    <<<<"_", "helpers">>, <<"date", "_", "_", "time">>, <<"date", "_", "time">>, <<"datetime">>, <<"ip", "_", "address">>,
      <<"math">>, <<"text">>, <<"text", "_", "broken">>, <<"user", "_", "info">>,
      <<"user", "_", "information">>, <<"weather">>>>

\* the rank of a file name in that order
Rank(stem) == CHOOSE r \in 1..Len(AscendingNames) : AscendingNames[r] = stem

\* a sequence of file stems in strictly ascending order
Ascending(seq) == \A i \in 1..Len(seq) : \A j \in 1..Len(seq) :
    i < j => Rank(seq[i]) < Rank(seq[j])

\* the namespaces of the "[ns]" lines of a listing, in the order printed
RECURSIVE ListedNamespaces(_)
ListedNamespaces(lines) ==
    IF Len(lines) = 0 THEN <<>>
    ELSE (IF Head(lines).kind = "ns" THEN <<Head(lines).name>> ELSE <<>>)
         \o ListedNamespaces(Tail(lines))

\* C20: the modules are imported in ascending order of file name, and the
\* namespaces of the registry, of the listing and of the "Available
\* namespaces" messages are in that order.
C20_AscendingOrder ==
    /\ Ascending(sys_modules)
    /\ Ascending(NamespaceNames(namespaces))
    /\ \A i \in 1..Len(builds) : Ascending(NamespaceNames(builds[i].namespaces))
    /\ Ascending(ListedNamespaces(stdout))
    /\ \A l \in LinesOf("available") :
          l.text \in {"Available namespaces: ", "Available: "} => Ascending(l.items)

\* C20 witness: the listing of the repository's eight namespaces was printed,
\* date_time first and weather last.
C20_Witness ==
    /\ CliExited /\ argv = <<>>
    /\ Len(ListedNamespaces(stdout)) = 8
    /\ ListedNamespaces(stdout)[1] = <<"date", "_", "time">>
    /\ ListedNamespaces(stdout)[8] = <<"weather">>

\* the function of a module a registration was made for
Original(ns, name) ==
    CHOOSE o \in Range(ModuleMembers(ns)) :
        o.kind = "function" /\ o.name = name /\ o.module = <<"utils", ".">> \o ns

\* the tool server has called a tool and holds the wrapper's answer
Served == prog = "server" /\ pc = "responding"

\* C14: for a tool call the wrapper called the tool's operation once, with
\* the arguments of the call; it answers the JSON text of the mapping the
\* operation returned, the operation's result itself when it is not a
\* mapping, and the operation's exception when it raised.
C14_WrapperTransparent ==
    Served =>
        /\ Len(calls) = 1
        /\ calls[1].args = request.args
        /\ \E t \in tools :
              t.name = request.tool /\ t.ns = calls[1].ns /\ t.func = calls[1].name
        /\ LET r == CallOperation(Original(calls[1].ns, calls[1].name), request.args, env)
           IN /\ r.kind = "dict" => (response.kind = "str" /\ response.keys = r.keys)
              /\ r.kind = "str" => response = r
              /\ r.kind = "raise" => response = r

\* C15: every registered wrapper has the name and the parameter list (names,
\* order, hints, defaults) of the function it wraps.
C15_WrapperKeepsSignature ==
    /\ \A i \in 1..Len(registered) :
          LET o == Original(registered[i].ns, registered[i].func) IN
          registered[i].name = o.name /\ registered[i].params = o.params
    /\ \A t \in tools :
          LET o == Original(t.ns, t.func) IN t.name = o.name /\ t.params = o.params

\* C15 witness: round_number is registered with (a: float, decimals: int = 0).
C15_Witness ==
    /\ prog = "server" /\ pc = "serving"
    /\ \E t \in tools :
          /\ t.ns = <<"math">> /\ t.name = <<"round", "_", "number">>
          /\ Len(t.params) = 2
          /\ t.params[1].hint = "float" /\ ~t.params[1].hasDefault
          /\ t.params[2].hint = "int" /\ t.params[2].hasDefault

\* C16: the description of every tool is "[" namespace description "] "
\* operation description when the module and the function both have a
\* one-line description, and the operation's one-line description otherwise.
C16_DescriptionHasNamespace ==
    \A t \in tools :
        LET nsdesc == FirstLine(ModuleDoc(t.ns))
            opdesc == FirstLine(Original(t.ns, t.func).doc)
        IN t.description = IF nsdesc # "" /\ opdesc # ""
                           THEN <<"[", nsdesc, "] ", opdesc>>
                           ELSE <<opdesc>>

\* the fraction num/den a printed or returned number stands for equals n/d
IsFraction(v, n, d) == v.den > 0 /\ v.num * d = n * v.den

\* r is the remainder of a divided by b: a - r is a whole multiple of b and r
\* lies between 0 and b, 0 included and b excluded
IsRemainder(r, a, b) ==
    /\ \E q \in -4..4 : IsFraction(r, a.num * b.den - q * b.num * a.den, a.den * b.den)
    /\ \/ b.num > 0 /\ r.num >= 0 /\ r.num * b.den < b.num * r.den
       \/ b.num < 0 /\ r.num <= 0 /\ r.num * b.den > b.num * r.den

\* C21: divide(a, b) for b other than 0 prints a mapping with 'result' equal
\* to a/b and no 'error'; for b equal to 0 a mapping with 'error' and no
\* 'result'.  modulo does the same with the remainder of a by b.
C21_DivideAndModulo ==
    (CliExited /\ (Entered(<<"math">>, <<"divide">>) \/ Entered(<<"math">>, <<"modulo">>))) =>
        LET a == calls[1].args[1]
            b == calls[1].args[2]
        IN \E l \in LinesOf("result") :
              IF b.num = 0
              THEN "error" \in l.keys /\ "result" \notin l.keys
              ELSE /\ "result" \in l.keys /\ "error" \notin l.keys
                   /\ Entered(<<"math">>, <<"divide">>) =>
                         IsFraction(l.vals.result, a.num * b.den, a.den * b.num)
                   /\ Entered(<<"math">>, <<"modulo">>) => IsRemainder(l.vals.result, a, b)

\* C21 witness: divide 1.5 -1 printed its result, and modulo 1.5 -1 too.
C21_Witness ==
    /\ CliExited /\ Entered(<<"math">>, <<"divide">>)
    /\ calls[1].args[1].num * 2 = 3 * calls[1].args[1].den
    /\ calls[1].args[2].num = -1
    /\ \E l \in LinesOf("result") : "result" \in l.keys

\* the alpha-3 and alpha-2 codes of the Fahrenheit countries, in capitals
FahrenheitCodes ==
    {<<"USA", "US">>, <<"BHS", "BS">>, <<"CYM", "KY">>, <<"LBR", "LR">>,
     <<"PLW", "PW">>, <<"FSM", "FM">>, <<"MHL", "MH">>}

\* the country code the operation entered was given, without the spaces
\* around it and in capitals
GivenCode == Upper(Strip(ArgString(1)))

\* the run called temperature_unit_for_country and is over
UnitRunOver ==
    CliExited /\ Entered(<<"weather">>, U(<<"temperature", "unit", "for", "country">>))

\* C22: temperature_unit_for_country answers an alpha-3 code of a Fahrenheit
\* country as it answers the matching alpha-2 code, whatever the letter case
\* and the spaces around; default_unit is "fahrenheit" exactly when the
\* normalized code is the code of a Fahrenheit country, "celsius" otherwise.
C22_Alpha3AsAlpha2 ==
    UnitRunOver =>
        \E l \in LinesOf("result") :
            /\ l.keys = {"country_code", "default_unit"}
            /\ \A p \in FahrenheitCodes :
                   GivenCode \in {<<p[1]>>, <<p[2]>>} =>
                       l.vals = [country_code |-> <<p[2]>>, default_unit |-> "fahrenheit"]
            /\ l.vals.default_unit =
                   IF \E p \in FahrenheitCodes : GivenCode \in {<<p[1]>>, <<p[2]>>}
                   THEN "fahrenheit" ELSE "celsius"

\* " usa ", an alpha-3 code in small letters between spaces, was answered
C22_Witness ==
    /\ UnitRunOver
    /\ ArgString(1) = <<" ", "usa", " ">>
    /\ \E l \in LinesOf("result") : l.vals.default_unit = "fahrenheit"

\* the run called llm_tokenize with an algorithm name and is over
TokenizeRunOver ==
    /\ CliExited /\ Entered(<<"text">>, U(<<"llm", "tokenize">>))
    /\ Len(calls[1].args) = 2

\* the tokenizer backend of an algorithm name written in small letters, ""
\* when the name is of neither backend
BackendOf(alg) ==
    IF alg \in {<<"mistral", "_", "v", d>> : d \in {"1", "2", "3"}} THEN "mistral_common"
    ELSE IF alg = <<"gpt", "2">> THEN "tiktoken"
    ELSE ""

\* C23: llm_tokenize treats the algorithm name case-insensitively: a name that
\* differs from a known name only in letter case selects the backend of the
\* known name, and the "algorithm" of the result is the name in small letters.
C23_AlgorithmCaseInsensitive ==
    (TokenizeRunOver /\ BackendOf(Lower(Strip(ArgString(2)))) # "") =>
        \E l \in LinesOf("result") :
            /\ "error" \notin l.keys
            /\ l.vals.tokenizer_backend = BackendOf(Lower(Strip(ArgString(2))))
            /\ l.vals.algorithm = Lower(Strip(ArgString(2)))

\* the run called datetime.current with a timezone name and is over
CurrentRunOver ==
    /\ CliExited /\ Entered(<<"datetime">>, <<"current">>)
    /\ Len(calls[1].args) = 1 /\ ArgString(1) # <<>>

\* the IANA zone a name of the command lines stands for, <<>> when it stands
\* for none
ZoneNamed(name) ==
    IF name \in {<<"PST">>, <<"pst">>, <<"Pst">>, <<"America", "/", "Los", "_", "Angeles">>}
    THEN <<"America", "/", "Los", "_", "Angeles">>
    ELSE IF name \in {<<"UTC">>, <<"utc">>} THEN <<"UTC">>
    ELSE <<>>

\* C24: datetime.current with a non-empty time_zone never raises: the result
\* has only an "error" key exactly when the name cannot be resolved, and
\* otherwise "date_time" and "timezone" and no "error" key; an abbreviation is
\* resolved whatever its letter case to its IANA zone (PST is
\* America/Los_Angeles).
C24_CurrentNeverRaises ==
    CurrentRunOver =>
        /\ stderr = <<>> /\ exitCode = 0
        /\ \E l \in LinesOf("result") :
              IF ZoneNamed(ArgString(1)) = <<>> THEN l.keys = {"error"}
              ELSE /\ {"date_time", "timezone"} \subseteq l.keys /\ "error" \notin l.keys
                   /\ l.vals.timezone.name = ZoneNamed(ArgString(1))

\* pst, in small letters, was answered with America/Los_Angeles
C24_Witness ==
    /\ CurrentRunOver /\ ArgString(1) = <<"pst">>
    /\ \E l \in LinesOf("result") :
          "timezone" \in l.keys /\ l.vals.timezone.name = <<"America", "/", "Los", "_", "Angeles">>

\* the run called personal_data on a file that has every required field and a
\* birthday that is a date, and is over
ProfileReturned ==
    /\ CliExited /\ Entered(<<"user", "_", "information">>, <<"personal", "_", "data">>)
    /\ \A f \in RequiredFields : ~FieldMissing(f)
    /\ env.cfg.data.birthday.s \in {"1990-01-31", "2000-02-29", "2026-01-31"}

\* a text of the profile files is blank
BlankText(text) == text \in {"", " "}

\* the 'name' of the file is not usable: absent, blank, or structured with
\* first, middle and last all blank
NoUsableName(raw) ==
    \/ raw.k = "none"
    \/ raw.k = "str" /\ BlankText(raw.s)
    \/ raw.k = "dict" /\ \A i \in 1..3 : BlankText(raw.items[i])

\* the long name derived from a usable name of the profile files: the text
\* without the spaces around it, the non-blank parts joined by single spaces
LongNameOf(raw) ==
    CASE raw = StrValue(" Jane R ") -> "Jane R"
      [] raw = NameValue(" Jane ", "", "Roe") -> "Jane Roe"
      [] raw = NameValue("Jane", "Q", "Roe") -> "Jane Q Roe"
      [] OTHER -> "?"

\* C25: personal_data on a file with all required fields returns the OS
\* username as name and the OS full name as long_name when the file has no
\* usable 'name'; with a usable 'name' it returns that value as name and the
\* long name derived from it (the parts of a structured name joined by single
\* spaces).
C25_NameFallback ==
    ProfileReturned =>
        \E l \in LinesOf("result") :
            IF NoUsableName(env.cfg.data.name)
            THEN l.vals.name = StrValue("jane") /\ l.vals.long_name = StrValue("Jane Doe")
            ELSE /\ l.vals.name = env.cfg.data.name
                 /\ l.vals.long_name = StrValue(LongNameOf(env.cfg.data.name))

\* a file whose structured name has only blank parts was answered with the
\* names of the account
C25_Witness ==
    /\ ProfileReturned /\ env.cfg.data.name = NameValue("", " ", "")
    /\ \E l \in LinesOf("result") : l.vals.long_name = StrValue("Jane Doe")

\* the birthday of the profile file as year, month, day
Born ==
    LET t == env.cfg.data.birthday.s IN
    CASE t = "1990-01-31" -> <<1990, 1, 31>>
      [] t = "2000-02-29" -> <<2000, 2, 29>>
      [] t = "2026-01-31" -> <<2026, 1, 31>>

\* the day d = <<year, month, day>> is before the day e
DayBefore(d, e) ==
    \/ d[1] < e[1]
    \/ d[1] = e[1] /\ d[2] < e[2]
    \/ d[1] = e[1] /\ d[2] = e[2] /\ d[3] < e[3]

\* the day of a date of the environment
DayOf(date) == <<date.year, date.month, date.day>>

\* the complete years from the birthday to a day: the difference of the years,
\* less one when the month and day are before those of the birthday
CompleteYears(born, day) ==
    day[1] - born[1] - (IF DayBefore(<<0, day[2], day[3]>>, <<0, born[2], born[3]>>)
                        THEN 1 ELSE 0)

\* C30: for a birthday not after today the age of a printed profile is the number of complete
\* years elapsed: the difference of the years, reduced by one exactly when
\* today's month and day are before the birthday's; it is not negative, and
\* the age computed on a later day is not smaller.
C30_AgeIsCompleteYears ==
    (CliExited /\ ProfileRequest /\ ResultPrinted /\ ~DayBefore(DayOf(env.today), Born)) =>
        \A l \in LinesOf("result") :
            LET age == l.vals.age.items[1] IN
            /\ l.vals.age.k = "int"
            /\ age = CompleteYears(Born, DayOf(env.today))
            /\ age >= 0
            /\ \A later \in Todays :
                   DayBefore(DayOf(env.today), DayOf(later)) =>
                       age <= _compute_age(fromisoformat(env.cfg.data.birthday.s), later)

\* the day before the 26th birthday of a person born on 29 February 2000
C30_Witness ==
    /\ ProfileReturned /\ Born = <<2000, 2, 29>> /\ DayOf(env.today) = <<2026, 2, 28>>
    /\ \E l \in LinesOf("result") : l.vals.age = IntValue(25)

\* the profile setup ran to its end and saved a file
SetupSaved == prog = "setup" /\ pc = "exited" /\ written # <<>>

\* a required field of saved data that is absent or empty; addresss is
\* missing unless it is a list with a non-blank entry
MissingIn(data, f) ==
    LET v == data[f] IN
    \/ v.k = "none"
    \/ v.k = "str" /\ v.s = ""
    \/ v.k = "list" /\ v.items = <<>>
    \/ f = "addresss" /\ (v.k # "list" \/ \A i \in 1..Len(v.items) : v.items[i] \in {"", " "})

\* C26: when the interactive profile setup returns, the data it saved has
\* every required field filled in, whatever the file held and whatever the
\* user typed: a personal_data call that follows does not raise the
\* missing-fields error.
C26_SetupSavesCompleteData ==
    SetupSaved =>
        LET saved == written[Len(written)] IN
        /\ \A f \in RequiredFields : ~MissingIn(saved, f)
        /\ UserInformationCall(<<"personal", "_", "data">>,
                               [env EXCEPT !.cfg = [exists |-> TRUE, data |-> saved]]).exc
               # "FileNotFoundError"

\* the profile setup is over, by returning or by the end of the input
SetupOver == prog = "setup" /\ pc = "exited"

\* the fields the user was prompted for, in the order of the prompts
Prompted ==
    LET ps == {j \in 1..Len(stdout) : stdout[j].kind = "prompt"}
        Nth[n \in 0..Len(stdout)] ==
            IF n = 0 THEN <<>>
            ELSE IF n \in ps THEN Append(Nth[n - 1], stdout[n].text) ELSE Nth[n - 1]
    IN Nth[Len(stdout)]

\* the place of a required field in the order birthday, email, phone, addresss
FieldRank(f) ==
    CASE f = "birthday" -> 1 [] f = "email" -> 2 [] f = "phone" -> 3 [] f = "addresss" -> 4

\* C28: the profile setup leaves the file untouched when no required field is
\* missing; otherwise the file it writes keeps every key of the existing file
\* with its value, except the required fields that were missing, and the user
\* is prompted only for the missing fields, in the order birthday, email,
\* phone, addresss (and for each of them when the file is written).
C28_SetupTouchesOnlyMissing ==
    SetupOver =>
        LET missing == {f \in RequiredFields : FieldMissing(f)} IN
        /\ missing = {} => written = <<>> /\ Prompted = <<>>
        /\ \A j \in 1..Len(Prompted) :
              /\ Prompted[j] \in missing
              /\ j > 1 => FieldRank(Prompted[j - 1]) <= FieldRank(Prompted[j])
        /\ written # <<>> =>
              /\ Len(written) = 1
              /\ \A k \in DOMAIN written[1] :
                    k \notin missing => written[1][k] = env.cfg.data[k]
              /\ \A f \in missing : \E j \in 1..Len(Prompted) : Prompted[j] = f

\* a file with an email and a nickname only was completed: the user was asked
\* for the birthday, the phone and the addresses, and the nickname was kept
C28_Witness ==
    /\ SetupSaved
    /\ env.cfg.exists /\ env.cfg.data.email.s = "jane@example.com"
    /\ env.cfg.data.nickname.s = "JJ" /\ env.cfg.data.birthday.k = "none"
    /\ written[1].nickname.s = "JJ" /\ written[1].birthday.s = "2001-02-03"
    /\ Prompted = <<"birthday", "phone", "addresss", "addresss">>

\* the keys of the profile file: the fields that hold a value
FileKeys == {k \in DOMAIN env.cfg.data : env.cfg.data[k].k # "none"}

\* C27: in a profile returned by personal_data, name and long_name are the
\* resolved values and age is the computed one, never a long_name or age
\* stored in the file; every other key of the file is in the result with its
\* file value; and personal_data writes no file.
C27_IdentityFieldsComputed ==
    /\ Entered(<<"user", "_", "information">>, <<"personal", "_", "data">>) => written = <<>>
    /\ ProfileReturned =>
          \E l \in LinesOf("result") :
              /\ l.vals.age = IntValue(CompleteYears(Born, DayOf(env.today)))
              /\ l.vals.name = IF NoUsableName(env.cfg.data.name) THEN StrValue("jane")
                               ELSE env.cfg.data.name
              /\ l.vals.long_name =
                     StrValue(IF NoUsableName(env.cfg.data.name) THEN "Jane Doe"
                              ELSE LongNameOf(env.cfg.data.name))
              /\ \A k \in FileKeys \ {"name", "long_name", "age"} :
                     k \in l.keys /\ l.vals[k] = env.cfg.data[k]

\* a file that stores a long_name, an age and a nickname was answered: the
\* nickname is in the result, the stored long_name and age are not
C27_Witness ==
    /\ ProfileReturned
    /\ env.cfg.data.long_name = StrValue("Stored Name") /\ env.cfg.data.age = IntValue(99)
    /\ env.cfg.data.name = StrValue(" Jane R ")
    /\ \E l \in LinesOf("result") :
          /\ l.vals.nickname = StrValue("JJ")
          /\ l.vals.long_name = StrValue("Jane R")
          /\ l.vals.age # IntValue(99)

\* the arguments of the command line are converted and bound without error
ArgumentsFit == Resolved(namespaces, argv) /\ ~ArityMismatch /\ ~SomeParseFails

\* C29: every operation of the CLI registry is reachable: the command
\* namespace__operation of a registered pair passes both lookups, and with
\* fitting arguments it enters exactly that operation, exactly once.
C29_RegisteredIsReachable ==
    (CliExited /\ ~ImportFailed /\ Len(argv) > 0) =>
        \A i \in 1..Len(namespaces) :
            \A f \in Range(namespaces[i].funcs) :
                argv[1] = QualifiedName(namespaces[i].ns, f.name) =>
                    /\ LinesOf("error") = {}
                    /\ Resolved(namespaces, argv)
                    /\ ArgumentsFit =>
                          /\ Len(calls) = 1
                          /\ calls[1].ns = namespaces[i].ns
                          /\ calls[1].name = f.name


====
